---- MODULE Spec2Model ----
(***************************************************************************)
(* A model of the Othello bitboard move engine (src/othello/src/board.py), *)
(* the evaluator (evaluate.py), the searches (search.py) and the           *)
(* iterative-deepening driver (engine.py).                                 *)
(*                                                                         *)
(* A bitboard is modelled as the set of its set bit positions.  Python     *)
(* integers are unbounded, so a left shift may produce positions >= 64;    *)
(* the code removes them by and-ing with a 64-bit operand, and so does the *)
(* model.  A Board is a record of the dataclass' three fields.             *)
(***************************************************************************)
EXTENDS Integers, Sequences, FiniteSets, TLC

VARIABLES
    board,        \* play.py: the game loop's current Board
    prev,         \* the Board that was passed to the last operation
    op,           \* the last operation: "initial", "make_move", "pass_turn"
    square,       \* the square passed to the last make_move (None otherwise)
    flipped,      \* play.py:69 get_flipped_squares(prev, square) of the last move
    legal_moves,  \* play.py:123 get_legal_moves(board)
    plies,        \* number of operations applied since the start board
    heap,         \* the Board objects in memory, in the order they were created:
                  \* a reference to a Board is its index
    call,         \* the last operation on heap, with the reference it received
                  \* and the reference it returned
    self_tt,                 \* engine.py:28 self.tt
    self_killer_moves,       \* engine.py:29 self.killer_moves
    self_history,            \* engine.py:30 self.history
    self_nodes_searched,     \* engine.py:31 self.nodes_searched
    self_max_depth_reached,  \* engine.py:32 self.max_depth_reached
    self_pv_move,            \* engine.py:33 self.pv_move
    pc,               \* get_best_move: "idle" (no call in progress), "loop"
                      \* (line 78), "search" (line 84), "after" (line 149)
    loop_depth,       \* get_best_move: the local depth
    loop_best_move,   \* get_best_move: the local best_move
    loop_best_score,  \* get_best_move: the local best_score
    expired,      \* the last reading of the clock: elapsed >= time_limit_seconds
    result,       \* the tuple returned by the last get_best_move that returned
    searches,     \* the root calls of negamax made by the current / last call
    iterations_started  \* iterations of the deepening loop started, over all calls

gameVars == <<board, prev, op, square, flipped, legal_moves, plies, heap, call>>

engineVars == <<self_tt, self_killer_moves, self_history, self_nodes_searched,
                self_max_depth_reached, self_pv_move, pc, loop_depth, loop_best_move,
                loop_best_score, expired, result, searches, iterations_started>>

\* Python's None where a square index (0..63) is expected
None == 0 - 1

(***************************************************************************)
(* Bounds of the model.                                                    *)
(***************************************************************************)
\* operations (make_move / pass_turn) applied from Board.initial()
MaxPlies == 4
\* longest run of opponent disks in a start board made of one ray
MaxRun == 6
\* longest run of opponent disks in a start board made of two rays
MaxRunPair == 1
\* iterations of the deepening loop in a behaviour, over all calls of
\* get_best_move: the time budget of a call expires at the latest when the
\* last of them has been searched
MaxIterations == 3

(***************************************************************************)
(* board.py: constants                                                     *)
(***************************************************************************)
Squares == 0..63

A1 == 0
H1 == 7
A8 == 56
H8 == 63
D4 == 27
E4 == 28
D5 == 35
E5 == 36

CORNERS == {A1, H1, A8, H8}

B2 == 9
G2 == 14
B7 == 49
G7 == 54

X_SQUARES == {B2, G2, B7, G7}

DIRECTIONS == <<8, 9, 1, -7, -8, -9, -1, 7>>

\* 0xFEFEFEFEFEFEFEFE: in every byte the bits 1..7
NOT_A_FILE == {8 * byte + bit : byte \in 0..7, bit \in 1..7}
\* 0x7F7F7F7F7F7F7F7F: in every byte the bits 0..6
NOT_H_FILE == {8 * byte + bit : byte \in 0..7, bit \in 0..6}
\* 0xFFFFFFFFFFFFFFFF
ALL_BITS == 0..63

(***************************************************************************)
(* Python integer operators on bit sets                                    *)
(***************************************************************************)
Shl(bits, n) == {b + n : b \in bits}
Shr(bits, n) == {b - n : b \in {x \in bits : x >= n}}
Abs(n) == IF n < 0 THEN -n ELSE n
PopCount(bits) == Cardinality(bits)

\* the list of the square indices in lo..hi whose bit is set, ascending: the
\* loop "for sq in range(64)" appending sq, computed on the two halves of the
\* range
RECURSIVE BitsToList(_, _, _)
BitsToList(mask, lo, hi) ==
    IF lo = hi THEN (IF lo \in mask THEN <<lo>> ELSE <<>>)
    ELSE BitsToList(mask, lo, (lo + hi) \div 2) \o BitsToList(mask, (lo + hi) \div 2 + 1, hi)

ListToSet(list) == {list[i] : i \in 1..Len(list)}

(***************************************************************************)
(* board.py: Board                                                         *)
(***************************************************************************)
Board(black, white, player) ==
    [black_pieces |-> black, white_pieces |-> white, current_player |-> player]

BoardInitial == Board({E4, D5}, {D4, E5}, "black")

OwnBits(b) == IF b.current_player = "black" THEN b.black_pieces ELSE b.white_pieces
OppBits(b) == IF b.current_player = "black" THEN b.white_pieces ELSE b.black_pieces

\* the direction-specific mask that prevents wrapping
EdgeMask(direction) ==
    IF direction \in {1, 9, -7} THEN NOT_H_FILE
    ELSE IF direction \in {-1, -9, 7} THEN NOT_A_FILE
    ELSE ALL_BITS

ShiftDir(bits, direction) ==
    IF direction > 0 THEN Shl(bits, Abs(direction)) ELSE Shr(bits, Abs(direction))

(***************************************************************************)
(* board.py: get_legal_moves                                               *)
(***************************************************************************)
\* lines 138-142: one extension of the candidates along the direction
ExtendCandidates(candidates, opp, direction) ==
    candidates \cup (ShiftDir(candidates \cap EdgeMask(direction), direction) \cap opp)

\* lines 138-142: for _ in range(n)
RECURSIVE ExtendTimes(_, _, _, _)
ExtendTimes(candidates, opp, direction, n) ==
    IF n = 0 THEN candidates
    ELSE ExtendTimes(ExtendCandidates(candidates, opp, direction), opp, direction, n - 1)

\* mutant: the shifts are made without and-ing with the edge mask first
LegalMaskOfDirection_NoEdgeMask(own, opp, empty, direction) ==
    LET Ext(c) == c \cup (ShiftDir(c, direction) \cap opp)
        first == ShiftDir(own, direction) \cap opp
        candidates == Ext(Ext(Ext(Ext(Ext(first)))))
    IN  ShiftDir(candidates, direction) \cap empty

\* lines 118-148: the body of the loop over DIRECTIONS; the bits a direction
\* adds to legal_mask
LegalMaskOfDirection(own, opp, empty, direction) ==
    LET first == ShiftDir(own \cap EdgeMask(direction), direction) \cap opp
        candidates == ExtendTimes(first, opp, direction, 5)
    IN  ShiftDir(candidates \cap EdgeMask(direction), direction) \cap empty

LegalMask(b) ==
    LET own == OwnBits(b)
        opp == OppBits(b)
        empty == ALL_BITS \ (own \cup opp)
    IN  UNION {LegalMaskOfDirection(own, opp, empty, DIRECTIONS[i]) : i \in 1..Len(DIRECTIONS)}

get_legal_moves(b) == BitsToList(LegalMask(b), 0, 63)

(***************************************************************************)
(* board.py: get_flipped_squares                                           *)
(***************************************************************************)
\* lines 192-219: the walk of one direction, from iteration n of range(6) on,
\* with the loop's pos and candidates; the value is what the direction adds
\* to flips
RECURSIVE FlippedWalk(_, _, _, _, _, _, _)
FlippedWalk(own_bits, opp_bits, sq, direction, pos, candidates, n) ==
    IF n = 6 THEN {}
    ELSE
      LET p == pos + direction
          stop ==
            IF direction > 0
            THEN \/ p >= 64
                 \/ direction \in {1, 9, -7} /\ p \notin EdgeMask(direction)
                 \/ direction \in {-1, -9, 7} /\ sq \notin EdgeMask(direction)
            ELSE \/ p < 0
                 \/ direction \in {1, 9, -7} /\ sq \notin EdgeMask(direction)
                 \/ direction \in {-1, -9, 7} /\ p \notin EdgeMask(direction)
      IN  IF stop THEN {}
          ELSE IF p \in opp_bits
               THEN FlippedWalk(own_bits, opp_bits, sq, direction, p, candidates \cup {p}, n + 1)
          ELSE IF p \in own_bits THEN candidates
          ELSE {}

FlippedMask(b, sq) ==
    UNION {FlippedWalk(OwnBits(b), OppBits(b), sq, DIRECTIONS[i], sq, {}, 0) :
             i \in 1..Len(DIRECTIONS)}

get_flipped_squares(b, sq) == BitsToList(FlippedMask(b, sq), 0, 63)

(***************************************************************************)
(* board.py: make_move, pass_turn                                          *)
(***************************************************************************)
\* lines 269-296: the walk of one direction inside make_move (the code repeats
\* the loop of get_flipped_squares)
RECURSIVE MoveWalk(_, _, _, _, _, _, _)
MoveWalk(own_bits, opp_bits, sq, direction, pos, candidates, n) ==
    IF n = 6 THEN {}
    ELSE
      LET p == pos + direction
          stop ==
            IF direction > 0
            THEN \/ p >= 64
                 \/ direction \in {1, 9, -7} /\ p \notin EdgeMask(direction)
                 \/ direction \in {-1, -9, 7} /\ sq \notin EdgeMask(direction)
            ELSE \/ p < 0
                 \/ direction \in {1, 9, -7} /\ sq \notin EdgeMask(direction)
                 \/ direction \in {-1, -9, 7} /\ p \notin EdgeMask(direction)
      IN  IF stop THEN {}
          ELSE IF p \in opp_bits
               THEN MoveWalk(own_bits, opp_bits, sq, direction, p, candidates \cup {p}, n + 1)
          ELSE IF p \in own_bits THEN candidates
          ELSE {}

Opponent(player) == IF player = "black" THEN "white" ELSE "black"

\* mutant: the flipped disks are not removed from the opponent's bitboard
make_move_KeepsOpp(b, sq) ==
    LET own_bits == OwnBits(b)
        opp_bits == OppBits(b)
        flips == UNION {MoveWalk(own_bits, opp_bits, sq, DIRECTIONS[i], sq, {}, 0) :
                          i \in 1..Len(DIRECTIONS)}
        new_own == own_bits \cup {sq} \cup flips
    IN  IF b.current_player = "black"
        THEN Board(new_own, opp_bits, "white")
        ELSE Board(opp_bits, new_own, "black")

\* mutant: the placed disk is not added to the mover's bitboard
make_move_NoPlaced(b, sq) ==
    LET own_bits == OwnBits(b)
        opp_bits == OppBits(b)
        flips == UNION {MoveWalk(own_bits, opp_bits, sq, DIRECTIONS[i], sq, {}, 0) :
                          i \in 1..Len(DIRECTIONS)}
        new_own == own_bits \cup flips
        new_opp == opp_bits \ flips
    IN  IF b.current_player = "black"
        THEN Board(new_own, new_opp, "white")
        ELSE Board(new_opp, new_own, "black")

make_move(b, sq) ==
    LET own_bits == OwnBits(b)
        opp_bits == OppBits(b)
        placed == {sq}
        flips == UNION {MoveWalk(own_bits, opp_bits, sq, DIRECTIONS[i], sq, {}, 0) :
                          i \in 1..Len(DIRECTIONS)}
        new_own == own_bits \cup placed \cup flips
        new_opp == opp_bits \ flips
    IN  IF b.current_player = "black"
        THEN Board(new_own, new_opp, "white")
        ELSE Board(new_opp, new_own, "black")

\* mutant: the copy is returned with the side to move unchanged
pass_turn_NoSwitch(b) == Board(b.black_pieces, b.white_pieces, b.current_player)

pass_turn(b) ==
    Board(b.black_pieces, b.white_pieces,
          IF b.current_player = "black" THEN "white" ELSE "black")

(***************************************************************************)
(* board.py: is_game_over, get_winner                                      *)
(***************************************************************************)
\* mutant: only the side to move is asked for legal moves
is_game_over_OneSide(b) == get_legal_moves(b) = <<>>

is_game_over(b) ==
    IF get_legal_moves(b) # <<>> THEN FALSE
    ELSE Len(get_legal_moves(pass_turn(b))) = 0

\* mutant: the counts compared are those of the side to move and its opponent
get_winner_BySide(b) ==
    LET own_count == PopCount(OwnBits(b))
        opp_count == PopCount(OppBits(b))
    IN  IF own_count > opp_count THEN "black"
        ELSE IF opp_count > own_count THEN "white"
        ELSE "None"

get_winner(b) ==
    LET black_count == PopCount(b.black_pieces)
        white_count == PopCount(b.white_pieces)
    IN  IF black_count > white_count THEN "black"
        ELSE IF white_count > black_count THEN "white"
        ELSE "None"

(***************************************************************************)
(* evaluate.py: evaluate_terminal (scores are whole-valued floats)         *)
(***************************************************************************)
evaluate_terminal(b, player) ==
    LET own_count == IF player = "black" THEN PopCount(b.black_pieces)
                                         ELSE PopCount(b.white_pieces)
        opp_count == IF player = "black" THEN PopCount(b.white_pieces)
                                         ELSE PopCount(b.black_pieces)
        piece_diff == own_count - opp_count
    IN  IF piece_diff > 0 THEN 10000 + piece_diff
        ELSE IF piece_diff < 0 THEN -10000 + piece_diff
        ELSE 0

(***************************************************************************)
(* evaluate.py: the heuristic evaluator.  Every weight is a whole-valued   *)
(* float, so every score is a whole number.                                *)
(***************************************************************************)
MOBILITY_WEIGHT == 15
CORNER_WEIGHT == 120
X_SQUARE_PENALTY == -60
PIECE_COUNT_WEIGHT == 1
STABILITY_WEIGHT == 25
FRONTIER_WEIGHT == -8
POSITION_WEIGHT_SCALE == 1
PARITY_WEIGHT == 15

POSITION_WEIGHTS ==
    << 120, -20,  20,  10,  10,  20, -20, 120,
       -20, -40,  -5,  -5,  -5,  -5, -40, -20,
        20,  -5,  15,   5,   5,  15,  -5,  20,
        10,  -5,   5,   3,   3,   5,  -5,  10,
        10,  -5,   5,   3,   3,   5,  -5,  10,
        20,  -5,  15,   5,   5,  15,  -5,  20,
       -20, -40,  -5,  -5,  -5,  -5, -40, -20,
       120, -20,  20,  10,  10,  20, -20, 120 >>

\* lines 71-90: the loop over DIRECTIONS from index i on; stable_mask grows
\* inside the loop
RECURSIVE StableDirections(_, _, _)
StableDirections(stable_mask, player_pieces, i) ==
    IF i > Len(DIRECTIONS) THEN stable_mask
    ELSE LET direction == DIRECTIONS[i]
             new_stable == ShiftDir(stable_mask \cap EdgeMask(direction), direction)
                              \cap player_pieces
         IN  StableDirections(stable_mask \cup new_stable, player_pieces, i + 1)

\* lines 63-93: while changed and iterations < 10
RECURSIVE StableLoop(_, _, _)
StableLoop(stable_mask, player_pieces, iterations) ==
    IF iterations >= 10 THEN stable_mask
    ELSE LET next == StableDirections(stable_mask, player_pieces, 1)
         IN  IF next # stable_mask THEN StableLoop(next, player_pieces, iterations + 1)
             ELSE next

count_stable_pieces(b, player_pieces, opponent_pieces) ==
    PopCount(StableLoop(player_pieces \cap CORNERS, player_pieces, 0))

\* lines 116-131: what one direction adds to frontier
FrontierOfDirection(empty, player_pieces, direction) ==
    IF direction > 0
    THEN Shr(empty \cap EdgeMask(direction), Abs(direction)) \cap player_pieces
    ELSE Shl(empty \cap EdgeMask(direction), Abs(direction)) \cap player_pieces

count_frontier_pieces(player_pieces, opponent_pieces) ==
    LET occupied == player_pieces \cup opponent_pieces
        empty == ALL_BITS \ occupied
    IN  PopCount(UNION {FrontierOfDirection(empty, player_pieces, DIRECTIONS[i]) :
                          i \in 1..Len(DIRECTIONS)})

\* the sum of the weights of the squares of bits in lo..hi, computed on the
\* two halves of the range
RECURSIVE SumWeights(_, _, _)
SumWeights(bits, lo, hi) ==
    IF lo = hi THEN (IF lo \in bits THEN POSITION_WEIGHTS[lo + 1] ELSE 0)
    ELSE SumWeights(bits, lo, (lo + hi) \div 2) + SumWeights(bits, (lo + hi) \div 2 + 1, hi)

\* a square of both bitboards counts for the player only (if / elif)
get_positional_value(player_pieces, opponent_pieces) ==
    SumWeights(player_pieces, 0, 63) - SumWeights(opponent_pieces \ player_pieces, 0, 63)

EmptyCount(b) == 64 - PopCount(b.black_pieces \cup b.white_pieces)

\* the parity bonus credited to whichever player is asked about
get_parity_bonus_AlwaysOwn(b, player) ==
    LET empty_count == EmptyCount(b)
        parity == empty_count % 2
    IN  IF empty_count >= 20 THEN 0 ELSE parity * PARITY_WEIGHT

get_parity_bonus(b, player) ==
    LET empty_count == EmptyCount(b)
        parity == empty_count % 2
    IN  IF empty_count >= 20 THEN 0
        ELSE IF b.current_player = player THEN parity * PARITY_WEIGHT
        ELSE -parity * PARITY_WEIGHT

is_corner_empty(corner_square, b) ==
    corner_square \notin (b.black_pieces \cup b.white_pieces)

\* x_to_corner: B2 -> A1, G2 -> H1, B7 -> A8, G7 -> H8
x_to_corner == {<<9, 0>>, <<14, 7>>, <<49, 56>>, <<54, 63>>}

get_smart_x_square_penalty(b, player_pieces) ==
    X_SQUARE_PENALTY *
        Cardinality({x \in x_to_corner : x[1] \in player_pieces /\ is_corner_empty(x[2], b)})

evaluate(b, player) ==
    LET own_pieces == IF player = "black" THEN b.black_pieces ELSE b.white_pieces
        opp_pieces == IF player = "black" THEN b.white_pieces ELSE b.black_pieces
        own_mobility == Len(get_legal_moves(Board(b.black_pieces, b.white_pieces, player)))
        opponent == IF player = "black" THEN "white" ELSE "black"
        opp_mobility == Len(get_legal_moves(Board(b.black_pieces, b.white_pieces, opponent)))
        own_stable == count_stable_pieces(b, own_pieces, opp_pieces)
        opp_stable == count_stable_pieces(b, opp_pieces, own_pieces)
        own_frontier == count_frontier_pieces(own_pieces, opp_pieces)
        opp_frontier == count_frontier_pieces(opp_pieces, own_pieces)
        position_value == get_positional_value(own_pieces, opp_pieces)
        own_corners == PopCount(own_pieces \cap CORNERS)
        opp_corners == PopCount(opp_pieces \cap CORNERS)
        own_x_penalty == get_smart_x_square_penalty(b, own_pieces)
        opp_x_penalty == get_smart_x_square_penalty(b, opp_pieces)
        parity_bonus == get_parity_bonus(b, player)
        own_count == PopCount(own_pieces)
        opp_count == PopCount(opp_pieces)
    IN  (own_mobility - opp_mobility) * MOBILITY_WEIGHT
        + (own_stable - opp_stable) * STABILITY_WEIGHT
        + (own_frontier - opp_frontier) * FRONTIER_WEIGHT
        + position_value * POSITION_WEIGHT_SCALE
        + (own_corners - opp_corners) * CORNER_WEIGHT
        + (own_x_penalty - opp_x_penalty)
        + parity_bonus
        + (own_count - opp_count) * PIECE_COUNT_WEIGHT

(***************************************************************************)
(* search.py.  A transposition table is a function from board hashes to    *)
(* entries [depth, score, move]; the killer table a function from plies to *)
(* lists of moves; the history table a function from moves to weights.     *)
(* The searches are pure functions of their arguments and the tables; they *)
(* return, with their result, the tables as the call leaves them.          *)
(***************************************************************************)
\* float('inf'): larger than every score, with -INF for float('-inf')
INF == 1000000

EmptyTable == [x \in {} |-> 0]

\* (black << 65) | (white << 1) | player_bit
board_hash(b) ==
    Shl(b.black_pieces, 65) \cup Shl(b.white_pieces, 1)
        \cup (IF b.current_player = "black" THEN {0} ELSE {})

TTEntry(depth, score, move) == [depth |-> depth, score |-> score, move |-> move]

TTStore(tt, h, entry) == (h :> entry) @@ tt

\* history.get(m, 0)
HistoryGet(history, m) == IF m \in DOMAIN history THEN history[m] ELSE 0

\* killer_moves.get(current_depth, [])
KillersGet(killer_moves, ply) ==
    IF ply \in DOMAIN killer_moves THEN killer_moves[ply] ELSE <<>>

Max(a, b) == IF a >= b THEN a ELSE b

\* search.py:89, the mask 0x0000420000004200: bits 9 and 14 of the low word
\* and bits 9 and 14 of the word shifted by 32
X_SQUARE_MASK == {9, 14, 32 + 9, 32 + 14}

\* list.sort(key = history weight, reverse = True): stable, equal weights
\* keep the order of the input
RECURSIVE InsertByHistory(_, _, _)
InsertByHistory(sorted, m, history) ==
    IF sorted = <<>> THEN <<m>>
    ELSE IF HistoryGet(history, Head(sorted)) >= HistoryGet(history, m)
         THEN <<Head(sorted)>> \o InsertByHistory(Tail(sorted), m, history)
         ELSE <<m>> \o sorted

RECURSIVE SortByHistory(_, _, _)
SortByHistory(list, i, history) ==
    IF i = 0 THEN <<>>
    ELSE InsertByHistory(SortByHistory(list, i - 1, history), list[i], history)

\* lines 76-92: the category of a move
MoveCategory(move, pv_move, killer_moves) ==
    IF pv_move # None /\ move = pv_move THEN "pv"
    ELSE IF move \in CORNERS THEN "corners"
    ELSE IF killer_moves # <<>> /\ move \in ListToSet(killer_moves) THEN "killers"
    ELSE IF move \in X_SQUARE_MASK THEN "x_squares"
    ELSE "regular"

order_moves(b, moves, pv_move, killer_moves, history) ==
    LET Of(cat) == SelectSeq(moves, LAMBDA m : MoveCategory(m, pv_move, killer_moves) = cat)
        regular == Of("regular")
    IN  IF moves = <<>> THEN <<>>
        ELSE Of("pv") \o Of("corners") \o Of("killers")
               \o SortByHistory(regular, Len(regular), history) \o Of("x_squares")

\* F(v), with v evaluated once and bound as a value: a Python assignment
Apply(v, F(_)) == CHOOSE out \in {F(x) : x \in {v}} : TRUE

RECURSIVE solve_endgame(_, _, _, _, _)
RECURSIVE SolveMoves(_, _, _, _, _, _, _)

\* lines 155-170: the body of the loop for one move; st is the state of the
\* loop (alpha, best_score, best_move, the table, and whether it has broken)
SolveMove(b, move, beta, player, st) ==
    Apply(solve_endgame(make_move(b, move), -beta, -st.alpha, Opponent(player), st.tt),
          LAMBDA r :
            LET score == -r.score
                better == score > st.best_score
                new_alpha == Max(st.alpha, score)
            IN  [alpha |-> new_alpha,
                 best_score |-> IF better THEN score ELSE st.best_score,
                 best_move |-> IF better THEN move ELSE st.best_move,
                 tt |-> r.tt,
                 cut |-> new_alpha >= beta])

\* lines 154-170: the loop over ordered_moves[lo..hi], in order, computed on
\* the two halves of the range; nothing is done after the break
SolveMoves(b, ordered_moves, lo, hi, beta, player, st) ==
    IF st.cut THEN st
    ELSE IF lo = hi THEN SolveMove(b, ordered_moves[lo], beta, player, st)
    ELSE Apply(SolveMoves(b, ordered_moves, lo, (lo + hi) \div 2, beta, player, st),
               LAMBDA half :
                 SolveMoves(b, ordered_moves, (lo + hi) \div 2 + 1, hi, beta, player, half))

solve_endgame(b, alpha, beta, player, tt) ==
    LET h == board_hash(b)
    IN  IF h \in DOMAIN tt
        THEN [score |-> tt[h].score, move |-> tt[h].move, tt |-> tt]
        ELSE IF is_game_over(b)
        THEN [score |-> evaluate_terminal(b, player), move |-> None, tt |-> tt]
        ELSE Apply(get_legal_moves(b), LAMBDA moves :
               IF moves = <<>>
               THEN Apply(solve_endgame(pass_turn(b), -beta, -alpha, Opponent(player), tt),
                          LAMBDA r : [score |-> -r.score, move |-> None, tt |-> r.tt])
               ELSE Apply(order_moves(b, moves, None, <<>>, EmptyTable),
                          LAMBDA ordered_moves :
                            Apply(SolveMoves(b, ordered_moves, 1, Len(ordered_moves), beta,
                                             player,
                                             [alpha |-> alpha, best_score |-> -INF,
                                              best_move |-> ordered_moves[1], tt |-> tt,
                                              cut |-> FALSE]),
                                  LAMBDA r :
                                    [score |-> r.best_score, move |-> r.best_move,
                                     tt |-> TTStore(r.tt, h, TTEntry(9999, r.best_score,
                                                                     r.best_move))])))

\* lines 278-290: a beta cutoff by move at ply current_depth
KillersAfterCutoff(killer_moves, current_depth, move) ==
    LET old == KillersGet(killer_moves, current_depth)
        new == IF move \in ListToSet(old) THEN old
               ELSE SubSeq(<<move>> \o old, 1, IF Len(old) + 1 < 2 THEN Len(old) + 1 ELSE 2)
    IN  (current_depth :> new) @@ killer_moves

HistoryAfterCutoff(history, move, depth) ==
    (move :> (HistoryGet(history, move) + depth * depth)) @@ history

SearchResult(score, move, tt, killer_moves, history) ==
    [score |-> score, move |-> move, tt |-> tt,
     killer_moves |-> killer_moves, history |-> history]

RECURSIVE negamax(_, _, _, _, _, _, _, _, _, _)
RECURSIVE NegamaxMoves(_, _, _, _, _, _, _, _, _)

\* lines 263-290: the body of the loop for one move; st is the state of the
\* loop (alpha, best_score, best_move, the tables, and whether it has broken)
NegamaxMove(b, move, depth, beta, player, current_depth, st) ==
    Apply(negamax(make_move(b, move), depth - 1, -beta, -st.alpha, Opponent(player),
                  st.tt, st.killer_moves, st.history, None, current_depth + 1),
          LAMBDA r :
            LET score == -r.score
                better == score > st.best_score
                new_alpha == Max(st.alpha, score)
                cut == new_alpha >= beta
            IN  [alpha |-> new_alpha,
                 best_score |-> IF better THEN score ELSE st.best_score,
                 best_move |-> IF better THEN move ELSE st.best_move,
                 tt |-> r.tt,
                 killer_moves |-> IF cut
                                  THEN KillersAfterCutoff(r.killer_moves, current_depth, move)
                                  ELSE r.killer_moves,
                 history |-> IF cut THEN HistoryAfterCutoff(r.history, move, depth)
                             ELSE r.history,
                 cut |-> cut])

\* lines 262-290: the loop over ordered_moves[lo..hi], in order, computed on
\* the two halves of the range; nothing is done after the break
NegamaxMoves(b, ordered_moves, lo, hi, depth, beta, player, current_depth, st) ==
    IF st.cut THEN st
    ELSE IF lo = hi
    THEN NegamaxMove(b, ordered_moves[lo], depth, beta, player, current_depth, st)
    ELSE Apply(NegamaxMoves(b, ordered_moves, lo, (lo + hi) \div 2, depth, beta, player,
                            current_depth, st),
               LAMBDA half :
                 NegamaxMoves(b, ordered_moves, (lo + hi) \div 2 + 1, hi, depth, beta,
                              player, current_depth, half))

negamax(b, depth, alpha, beta, player, tt, killer_moves, history, pv_move, current_depth) ==
    LET h == board_hash(b)
    IN  IF EmptyCount(b) <= 15
        THEN Apply(solve_endgame(b, alpha, beta, player, tt),
                   LAMBDA r : SearchResult(r.score, r.move, r.tt, killer_moves, history))
        ELSE IF h \in DOMAIN tt /\ tt[h].depth >= depth
        THEN SearchResult(tt[h].score, tt[h].move, tt, killer_moves, history)
        ELSE IF depth = 0
        THEN SearchResult(evaluate(b, player), None, tt, killer_moves, history)
        ELSE IF is_game_over(b)
        THEN SearchResult(evaluate_terminal(b, player), None, tt, killer_moves, history)
        ELSE Apply(get_legal_moves(b), LAMBDA moves :
               IF moves = <<>>
               THEN Apply(negamax(pass_turn(b), depth - 1, -beta, -alpha, Opponent(player),
                                  tt, killer_moves, history, None, current_depth + 1),
                          LAMBDA r : SearchResult(-r.score, None, r.tt, r.killer_moves,
                                                  r.history))
               ELSE Apply(order_moves(b, moves, pv_move,
                                      KillersGet(killer_moves, current_depth), history),
                          LAMBDA ordered_moves :
                            Apply(NegamaxMoves(b, ordered_moves, 1, Len(ordered_moves),
                                               depth, beta, player, current_depth,
                                               [alpha |-> alpha, best_score |-> -INF,
                                                best_move |-> ordered_moves[1], tt |-> tt,
                                                killer_moves |-> killer_moves,
                                                history |-> history, cut |-> FALSE]),
                                  LAMBDA r :
                                    SearchResult(r.best_score, r.best_move,
                                                 TTStore(r.tt, h, TTEntry(depth, r.best_score,
                                                                          r.best_move)),
                                                 r.killer_moves, r.history))))

(***************************************************************************)
(* evaluate.py: EvaluationEngine.evaluate_position.  The scores of         *)
(* evaluate are whole numbers (every weight is one), so score > 1e-6 is    *)
(* 1000000 * score > 1.  win_probability, a float, is left out.            *)
(***************************************************************************)
\* the summary of the side to move, not of white
evaluate_position_SideToMove(b) ==
    Apply(evaluate(b, b.current_player), LAMBDA score :
        [score |-> score,
         leader |-> IF 1000000 * score > 1 THEN "bot"
                    ELSE IF 1000000 * score < -1 THEN "human"
                    ELSE "even"])

\* lines 377-391
evaluate_position(b) ==
    Apply(evaluate(b, "white"), LAMBDA score :
        [score |-> score,
         leader |-> IF 1000000 * score > 1 THEN "bot"
                    ELSE IF 1000000 * score < -1 THEN "human"
                    ELSE "even"])

(***************************************************************************)
(* Start boards.  Board(black, white, player) accepts any pair of          *)
(* bitboards; the start boards are the boards of the test-suite            *)
(* (tests/test_board.py) and the boards made of one or two rays: an empty  *)
(* square sq, a run of disks of one colour at sq + d, sq + 2d, ... and a   *)
(* disk of the other colour after the run, for a direction offset d.  The  *)
(* offsets are taken on square indices, so the family holds the straight   *)
(* lines of the board as well as the sequences that leave a row at the H   *)
(* file and continue at the A file of a neighbouring row (and back).       *)
(***************************************************************************)
Players == {"black", "white"}

RayRun(sq, d, k) == {sq + i * d : i \in 1..k}
RayEnd(sq, d, k) == sq + (k + 1) * d
RayFits(sq, d, k) == RayEnd(sq, d, k) \in Squares

\* the side to move has the end disks, the other colour the runs
RayBoard(run, ends, player) ==
    IF player = "black" THEN Board(ends, run, player) ELSE Board(run, ends, player)

OneRayBoards ==
    {RayBoard(RayRun(r[1], DIRECTIONS[r[2]], r[3]), {RayEnd(r[1], DIRECTIONS[r[2]], r[3])},
              r[4]) :
       r \in {x \in Squares \X (1..Len(DIRECTIONS)) \X (1..MaxRun) \X Players :
                RayFits(x[1], DIRECTIONS[x[2]], x[3])}}

TwoRayBoards ==
    {RayBoard(RayRun(r[1], DIRECTIONS[r[2]], r[4]) \cup RayRun(r[1], DIRECTIONS[r[3]], r[5]),
              {RayEnd(r[1], DIRECTIONS[r[2]], r[4]), RayEnd(r[1], DIRECTIONS[r[3]], r[5])},
              r[6]) :
       r \in {x \in Squares \X (1..Len(DIRECTIONS)) \X (1..Len(DIRECTIONS))
                     \X (1..MaxRunPair) \X (1..MaxRunPair) \X Players :
                /\ x[2] < x[3]
                /\ RayFits(x[1], DIRECTIONS[x[2]], x[4])
                /\ RayFits(x[1], DIRECTIONS[x[3]], x[5])
                /\ (RayRun(x[1], DIRECTIONS[x[2]], x[4]) \cup RayRun(x[1], DIRECTIONS[x[3]], x[5]))
                     \cap {RayEnd(x[1], DIRECTIONS[x[2]], x[4]),
                           RayEnd(x[1], DIRECTIONS[x[3]], x[5])} = {}}}

\* test_edge_chain_move_detected: the rows of the board, "B", "W" or "."
EdgeChainRows ==
    << <<".", ".", ".", "W", "W", "W", ".", ".">>,
       <<".", ".", ".", "B", "B", "B", "W", ".">>,
       <<".", ".", "W", "B", "B", "W", "W", ".">>,
       <<".", ".", ".", "B", "B", ".", "W", ".">>,
       <<".", ".", ".", "B", "B", "B", ".", ".">>,
       <<".", ".", ".", ".", ".", ".", ".", ".">>,
       <<".", ".", ".", ".", ".", ".", ".", ".">>,
       <<".", ".", ".", ".", ".", ".", ".", ".">> >>

board_from_rows(rows, player) ==
    Board({r * 8 + c : <<r, c>> \in {x \in (0..7) \X (0..7) : rows[x[1] + 1][x[2] + 1] = "B"}},
          {r * 8 + c : <<r, c>> \in {x \in (0..7) \X (0..7) : rows[x[1] + 1][x[2] + 1] = "W"}},
          player)

TestBoards ==
    { BoardInitial,
      Board({28, 35, 36}, {27, 26, 19}, "black"),   \* test_multiple_direction_flips
      Board({}, {27, 28}, "black"),                 \* test_no_legal_moves_pass
      Board(32..63, 0..31, "black"),                \* test_game_over_detection
      Board(32..63, 0..23, "black"),                \* test_winner_determination
      Board(0..7, 8..63, "black"),                  \* test_winner_determination
      Board({2, 18}, {1, 9}, "black"),              \* test_corner_moves
      board_from_rows(EdgeChainRows, "black") }

StartBoards == TestBoards \cup OneRayBoards \cup TwoRayBoards

(***************************************************************************)
(* engine.py: OthelloEngine.__init__, with no call of get_best_move in     *)
(* progress and none made.                                                 *)
(***************************************************************************)
\* the value of result before the first return of get_best_move
NoResult == <<>>

\* the value of call before the first operation on heap
NoCall == [op |-> "none", received |-> 0, returned |-> 0]

\* boards are values everywhere but in SpecObjects, which alone uses heap
NoObjects == heap = <<>> /\ call = NoCall

EngineInit ==
    /\ self_tt = EmptyTable
    /\ self_killer_moves = EmptyTable
    /\ self_history = EmptyTable
    /\ self_nodes_searched = 0
    /\ self_max_depth_reached = 0
    /\ self_pv_move = None
    /\ pc = "idle"
    /\ loop_depth = 0
    /\ loop_best_move = None
    /\ loop_best_score = 0
    /\ expired = FALSE
    /\ result = NoResult
    /\ searches = <<>>
    /\ iterations_started = 0

(***************************************************************************)
(* The game: a start board, then make_move on a legal square (play.py      *)
(* make_move_with_animation) or pass_turn, each followed by the loop's     *)
(* get_legal_moves of the new board.                                       *)
(***************************************************************************)
Init ==
    /\ board = BoardInitial
    /\ prev = board
    /\ op = "initial"
    /\ square = None
    /\ flipped = <<>>
    /\ legal_moves = get_legal_moves(board)
    /\ plies = 0
    /\ NoObjects
    /\ EngineInit

\* play.py:58-80 make_move_with_animation, then play.py:123
DoMakeMove(sq) ==
    /\ sq \in ListToSet(legal_moves)
    /\ flipped' = get_flipped_squares(board, sq)
    /\ board' = make_move(board, sq)
    /\ prev' = board
    /\ op' = "make_move"
    /\ square' = sq
    /\ legal_moves' = get_legal_moves(board')
    /\ plies' = plies + 1
    /\ UNCHANGED <<heap, call>>

\* play.py:146 board = pass_turn(board), then play.py:123
DoPassTurn ==
    /\ board' = pass_turn(board)
    /\ prev' = board
    /\ op' = "pass_turn"
    /\ square' = None
    /\ flipped' = <<>>
    /\ legal_moves' = get_legal_moves(board')
    /\ plies' = plies + 1
    /\ UNCHANGED <<heap, call>>

MakeMove(sq) == plies < MaxPlies /\ DoMakeMove(sq) /\ UNCHANGED engineVars

PassTurn == plies < MaxPlies /\ DoPassTurn /\ UNCHANGED engineVars

Next ==
    \/ \E sq \in Squares : MakeMove(sq)
    \/ PassTurn

vars == <<gameVars, engineVars>>

\* every sequence of at most MaxPlies operations from Board.initial()
Spec == Init /\ [][Next]_vars

(***************************************************************************)
(* The functions of board.py applied to a start board: one make_move on a  *)
(* legal square or one pass_turn.                                          *)
(***************************************************************************)
InitBoards ==
    /\ board \in StartBoards
    /\ prev = board
    /\ op = "initial"
    /\ square = None
    /\ flipped = <<>>
    /\ legal_moves = get_legal_moves(board)
    /\ plies = 0
    /\ NoObjects
    /\ EngineInit

ApplyMakeMove(sq) == op = "initial" /\ DoMakeMove(sq) /\ UNCHANGED engineVars

ApplyPassTurn == op = "initial" /\ DoPassTurn /\ UNCHANGED engineVars

NextBoards ==
    \/ \E sq \in Squares : ApplyMakeMove(sq)
    \/ ApplyPassTurn

SpecBoards == InitBoards /\ [][NextBoards]_vars

(***************************************************************************)
(* engine.py: OthelloEngine.get_best_move(board, time_limit_seconds), as   *)
(* the steps between its readings of the clock, and OthelloEngine.reset.   *)
(* The time budget is modelled by the readings: each evaluation of         *)
(* elapsed >= time_limit_seconds is true or false, and true for good once  *)
(* it was true; a budget of zero, or one that elapsed before the call, is  *)
(* the budget whose first reading is true.                                 *)
(***************************************************************************)
\* engine.py:76
ASPIRATION_WINDOW == 50

\* an endgame: a position reached from Board.initial() by 56 legal moves, with
\* four empty squares (7, 46, 55, 56) and three legal moves (7, 46, 56)
EndgameBoard ==
    Board({15, 18, 19, 23, 25, 26, 31, 33, 35, 36, 37, 38, 39, 42, 43, 47},
          {0, 1, 2, 3, 4, 5, 6, 8, 9, 10, 11, 12, 13, 14, 16, 17, 20, 21, 22, 24, 27, 28,
           29, 30, 32, 34, 40, 41, 44, 45, 48, 49, 50, 51, 52, 53, 54, 57, 58, 59, 60, 61,
           62, 63},
          "black")

\* an endgame reached from Board.initial() by legal moves, white to move, with
\* five empty squares (7, 15, 54, 57, 63) and three legal moves (54, 57, 63)
EndgameBoardFive ==
    Board({0, 1, 2, 3, 4, 5, 12, 18, 19, 21, 28, 29, 33, 35, 37, 41, 42, 44, 49, 53, 55,
           62},
          {6, 8, 9, 10, 11, 13, 14, 16, 17, 20, 22, 23, 24, 25, 26, 27, 30, 31, 32, 34, 36,
           38, 39, 40, 43, 45, 46, 47, 48, 50, 51, 52, 56, 58, 59, 60, 61},
          "white")

\* the boards get_best_move is first called with: boards with two or more
\* legal moves outside and inside the range of the endgame solver, with one
\* legal move, and with none (the side to move must pass; the game is over)
EngineBoards ==
    { BoardInitial,
      Board({28, 35, 36}, {27, 26, 19}, "black"),   \* test_multiple_direction_flips
      Board({2, 18}, {1, 9}, "black"),              \* test_corner_moves
      board_from_rows(EdgeChainRows, "black"),      \* test_edge_chain_move_detected
      EndgameBoard,
      EndgameBoardFive,
      Board({0}, {1}, "black"),                     \* one legal move
      Board({1}, {0}, "black"),                     \* no legal move, the opponent has one
      Board({}, {27, 28}, "black") }                \* test_no_legal_moves_pass

InitEngine ==
    /\ board \in EngineBoards
    /\ prev = board
    /\ op = "initial"
    /\ square = None
    /\ flipped = <<>>
    /\ legal_moves = get_legal_moves(board)
    /\ plies = 0
    /\ NoObjects
    /\ EngineInit

\* elapsed >= time_limit_seconds, read from a clock that does not run backwards
ClockReadings == IF expired THEN {TRUE} ELSE BOOLEAN

\* mutant: a board with one legal move is searched like any other
ImmediateResult_OnlyEmpty(moves) ==
    IF moves = <<>> THEN <<None, 0, 0>> ELSE NoResult

\* lines 56-62: the tuple returned before any search
ImmediateResult(moves) ==
    IF moves = <<>> THEN <<None, 0, 0>>
    ELSE IF Len(moves) = 1 THEN <<moves[1], 0, 0>>
    ELSE NoResult

\* mutant: the break is taken at depth 1 as well
StopsBeforeSearch_AnyDepth(elapsed_ge_limit, d) == elapsed_ge_limit

\* line 81: the break before the search of an iteration
StopsBeforeSearch(elapsed_ge_limit, d) == elapsed_ge_limit /\ d > 1

\* the narrow window from the second iteration on
AspirationWindow_FromDepthTwo(d, score) ==
    IF d <= 1 THEN [alpha |-> -INF, beta |-> INF]
    ELSE [alpha |-> score - ASPIRATION_WINDOW, beta |-> score + ASPIRATION_WINDOW]

\* lines 85-92
AspirationWindow(d, score) ==
    IF d <= 2 THEN [alpha |-> -INF, beta |-> INF]
    ELSE [alpha |-> score - ASPIRATION_WINDOW, beta |-> score + ASPIRATION_WINDOW]

\* returns the depth before the one the loop is at
Returned_PreviousDepth == <<loop_best_move, loop_best_score, loop_depth - 1>>

\* line 161
Returned == <<loop_best_move, loop_best_score, self_max_depth_reached>>

\* starts the search on the tables the call before left
GetBestMove_KeepsTables ==
    /\ pc = "idle"
    /\ LET moves == get_legal_moves(board)
       IN  /\ ImmediateResult(moves) = NoResult => iterations_started < MaxIterations
           /\ self_nodes_searched' = 0
           /\ self_max_depth_reached' = 0
           /\ searches' = <<>>
           /\ result' = ImmediateResult(moves)
           /\ IF ImmediateResult(moves) # NoResult
              THEN /\ self_pv_move' = IF Len(moves) = 1 THEN moves[1] ELSE self_pv_move
                   /\ UNCHANGED <<self_tt, self_killer_moves, pc, loop_depth,
                                  loop_best_move, loop_best_score, expired>>
              ELSE /\ loop_best_move' = moves[1]
                   /\ loop_best_score' = 0
                   /\ loop_depth' = 1
                   /\ UNCHANGED <<self_tt, self_killer_moves>>
                   /\ expired' = FALSE
                   /\ pc' = "loop"
                   /\ UNCHANGED self_pv_move
    /\ UNCHANGED <<gameVars, self_history, iterations_started>>

\* lines 50-73: the call, up to its return or to the deepening loop
GetBestMove ==
    /\ pc = "idle"
    /\ LET moves == get_legal_moves(board)
       IN  /\ ImmediateResult(moves) = NoResult => iterations_started < MaxIterations
           /\ self_nodes_searched' = 0
           /\ self_max_depth_reached' = 0
           /\ searches' = <<>>
           /\ result' = ImmediateResult(moves)
           /\ IF ImmediateResult(moves) # NoResult
              THEN /\ self_pv_move' = IF Len(moves) = 1 THEN moves[1] ELSE self_pv_move
                   /\ UNCHANGED <<self_tt, self_killer_moves, pc, loop_depth,
                                  loop_best_move, loop_best_score, expired>>
              ELSE /\ loop_best_move' = moves[1]
                   /\ loop_best_score' = 0
                   /\ loop_depth' = 1
                   /\ self_tt' = EmptyTable
                   /\ self_killer_moves' = EmptyTable
                   /\ expired' = FALSE
                   /\ pc' = "loop"
                   /\ UNCHANGED self_pv_move
    /\ UNCHANGED <<gameVars, self_history, iterations_started>>

\* lines 78-82, and line 161 after the break
LoopTop ==
    /\ pc = "loop"
    /\ \E elapsed_ge_limit \in ClockReadings :
         /\ expired' = elapsed_ge_limit
         /\ IF StopsBeforeSearch(elapsed_ge_limit, loop_depth)
            THEN result' = Returned /\ pc' = "idle"
            ELSE result' = result /\ pc' = "search"
    /\ UNCHANGED <<gameVars, self_tt, self_killer_moves, self_history, self_nodes_searched,
                   self_max_depth_reached, self_pv_move, loop_depth, loop_best_move,
                   loop_best_score, searches, iterations_started>>

\* a root call of negamax, as logged in searches
SearchLog(d, alpha, beta, hint, r) ==
    [depth |-> d, alpha |-> alpha, beta |-> beta, pv_move |-> hint,
     score |-> r.score, move |-> r.move]

\* lines 96-107, 112-123 and 126-137: negamax at the root, on the tables as the
\* engine or the search before left them
RootNegamax(b, d, alpha, beta, tables, hint) ==
    negamax(b, d, alpha, beta, b.current_player,
            tables.tt, tables.killer_moves, tables.history, hint, 0)

\* lines 84-137: the searches of one iteration; last is the search whose score
\* and move the iteration keeps
SearchIteration(b, d, score, tables, hint) ==
    LET w == AspirationWindow(d, score)
    IN  Apply(RootNegamax(b, d, w.alpha, w.beta, tables, hint), LAMBDA first :
          IF first.score <= w.alpha
          THEN Apply(RootNegamax(b, d, -INF, w.beta, first, hint), LAMBDA again :
                 [last |-> again,
                  log |-> <<SearchLog(d, w.alpha, w.beta, hint, first),
                            SearchLog(d, -INF, w.beta, hint, again)>>])
          ELSE IF first.score >= w.beta
          THEN Apply(RootNegamax(b, d, w.alpha, INF, first, hint), LAMBDA again :
                 [last |-> again,
                  log |-> <<SearchLog(d, w.alpha, w.beta, hint, first),
                            SearchLog(d, w.alpha, INF, hint, again)>>])
          ELSE [last |-> first, log |-> <<SearchLog(d, w.alpha, w.beta, hint, first)>>])

\* lines 84-143: the search of one iteration
Search ==
    /\ pc = "search"
    /\ \E it \in {SearchIteration(board, loop_depth, loop_best_score,
                                   [tt |-> self_tt, killer_moves |-> self_killer_moves,
                                    history |-> self_history],
                                   self_pv_move)} :
         /\ self_tt' = it.last.tt
         /\ self_killer_moves' = it.last.killer_moves
         /\ self_history' = it.last.history
         /\ searches' = searches \o it.log
         /\ IF it.last.move # None
            THEN /\ loop_best_move' = it.last.move
                 /\ loop_best_score' = it.last.score
                 /\ self_pv_move' = it.last.move
                 /\ self_max_depth_reached' = loop_depth
            ELSE UNCHANGED <<loop_best_move, loop_best_score, self_pv_move,
                             self_max_depth_reached>>
    /\ iterations_started' = iterations_started + 1
    /\ pc' = "after"
    /\ UNCHANGED <<gameVars, self_nodes_searched, loop_depth, expired, result>>

\* lines 149-159, and line 161 after a break; the budget has expired at the
\* latest when MaxIterations iterations have been searched
AfterSearch ==
    /\ pc = "after"
    /\ \E elapsed_ge_limit \in ClockReadings :
         /\ iterations_started >= MaxIterations => elapsed_ge_limit
         /\ expired' = elapsed_ge_limit
         /\ IF elapsed_ge_limit
            THEN result' = Returned /\ pc' = "idle" /\ loop_depth' = loop_depth
            ELSE /\ loop_depth' = loop_depth + 1
                 /\ IF loop_depth + 1 > 50
                    THEN result' = Returned /\ pc' = "idle"
                    ELSE result' = result /\ pc' = "loop"
    /\ UNCHANGED <<gameVars, self_tt, self_killer_moves, self_history, self_nodes_searched,
                   self_max_depth_reached, self_pv_move, loop_best_move, loop_best_score,
                   searches, iterations_started>>

\* clears the history with the other tables
Reset_ClearsHistory ==
    /\ pc = "idle"
    /\ self_tt' = EmptyTable
    /\ self_killer_moves' = EmptyTable
    /\ self_history' = EmptyTable
    /\ self_nodes_searched' = 0
    /\ self_max_depth_reached' = 0
    /\ self_pv_move' = None
    /\ UNCHANGED <<gameVars, pc, loop_depth, loop_best_move, loop_best_score,
                   expired, result, searches, iterations_started>>

\* lines 163-170
Reset ==
    /\ pc = "idle"
    /\ self_tt' = EmptyTable
    /\ self_killer_moves' = EmptyTable
    /\ self_nodes_searched' = 0
    /\ self_max_depth_reached' = 0
    /\ self_pv_move' = None
    /\ UNCHANGED <<gameVars, self_history, pc, loop_depth, loop_best_move, loop_best_score,
                   expired, result, searches, iterations_started>>

\* play.py:122 and 166-173: while the game is not over, the caller plays the
\* move get_best_move returned
PlayBestMove ==
    /\ pc = "idle"
    /\ result # NoResult
    /\ plies < MaxPlies
    /\ ~is_game_over(board)
    /\ IF result[1] = None THEN DoPassTurn ELSE DoMakeMove(result[1])
    /\ result' = NoResult
    /\ UNCHANGED <<self_tt, self_killer_moves, self_history, self_nodes_searched,
                   self_max_depth_reached, self_pv_move, pc, loop_depth, loop_best_move,
                   loop_best_score, expired, searches, iterations_started>>

NextEngine ==
    \/ GetBestMove
    \/ LoopTop
    \/ Search
    \/ AfterSearch
    \/ Reset
    \/ PlayBestMove

\* calls of get_best_move and reset on one engine, the board of a call the
\* start board or the board after the returned moves were played
SpecEngine == InitEngine /\ [][NextEngine]_vars

(***************************************************************************)
(* search.py: one call of negamax at the root, with a full window and an   *)
(* empty transposition table, on a board, to a depth and with the ordering *)
(* information (pv hint, killer moves, history) drawn from small sets.     *)
(***************************************************************************)
\* the largest depth negamax is called with
MaxSearchDepth == 4

\* a position reached from Board.initial() by six legal moves, black to move,
\* with the legal moves 10, 21, 29, 37, 44 and 45
SixPlyBoard == Board({12, 13, 26, 27, 35}, {2, 11, 20, 28, 36}, "black")

SearchBoards == { BoardInitial, SixPlyBoard }

\* no move, or one of the legal moves of b
HintMoves(b) == {None} \cup ListToSet(get_legal_moves(b))

\* killer_moves and history holding nothing, or the move m alone
KillersOf(m) == IF m = None THEN EmptyTable ELSE (0 :> <<m>>)
HistoryOf(m) == IF m = None THEN EmptyTable ELSE (m :> 5)

InitSearch ==
    /\ board \in SearchBoards
    /\ prev = board
    /\ op = "initial"
    /\ square = None
    /\ flipped = <<>>
    /\ legal_moves = get_legal_moves(board)
    /\ plies = 0
    /\ NoObjects
    /\ self_tt = EmptyTable
    /\ \E m \in HintMoves(board), kind \in {"pv_move", "killer_moves", "history"} :
          /\ self_pv_move = IF kind = "pv_move" THEN m ELSE None
          /\ self_killer_moves = KillersOf(IF kind = "killer_moves" THEN m ELSE None)
          /\ self_history = HistoryOf(IF kind = "history" THEN m ELSE None)
    /\ self_nodes_searched = 0
    /\ self_max_depth_reached = 0
    /\ pc = "negamax"
    /\ loop_depth \in 1..MaxSearchDepth
    /\ loop_best_move = None
    /\ loop_best_score = 0
    /\ expired = FALSE
    /\ result = NoResult
    /\ searches = <<>>
    /\ iterations_started = 0

\* search.py:178-295: the call; the tables are left as the call left them, and
\* searches holds the call with the killer moves and history it was given
CallNegamax ==
    /\ pc = "negamax"
    /\ \E r \in { negamax(board, loop_depth, -INF, INF, board.current_player, self_tt,
                          self_killer_moves, self_history, self_pv_move, 0) } :
          /\ self_tt' = r.tt
          /\ self_killer_moves' = r.killer_moves
          /\ self_history' = r.history
          /\ searches' = <<SearchLog(loop_depth, -INF, INF, self_pv_move, r)
                            @@ [killer_moves |-> self_killer_moves,
                                history |-> self_history]>>
    /\ pc' = "returned"
    /\ UNCHANGED <<gameVars, self_nodes_searched, self_max_depth_reached, self_pv_move,
                   loop_depth, loop_best_move, loop_best_score, expired, result,
                   iterations_started>>

NextSearch == CallNegamax

SpecSearch == InitSearch /\ [][NextSearch]_vars

(***************************************************************************)
(* board.py: Board objects.  A Board is a mutable object (a dataclass that *)
(* is not frozen) and a function receives a reference to it.  heap holds   *)
(* the objects; copy, make_move and pass_turn are modelled with the object *)
(* they create and the assignments they make to fields.  negamax,          *)
(* solve_endgame and get_best_move touch the Board they receive through    *)
(* get_legal_moves, board_hash, evaluate and is_game_over, which assign to *)
(* no field of it, and through make_move and pass_turn.                    *)
(***************************************************************************)
\* the largest number of objects on the heap
MaxObjects == 3

\* returns the object it received
copy_SameObject(h, ref) == [heap |-> h, ref |-> ref]

\* board.py:73-75 Board.copy: a new object with the fields of the one at ref
copy(h, ref) ==
    [heap |-> Append(h, Board(h[ref].black_pieces, h[ref].white_pieces,
                              h[ref].current_player)),
     ref |-> Len(h) + 1]

\* board.py:243 new_board = board.copy(); 245-299 the bits after the move,
\* from the fields of new_board; 302-312 assigned to the fields of new_board
MakeMoveObject(h, ref, sq) ==
    Apply(copy(h, ref), LAMBDA new_board :
        [heap |-> [new_board.heap EXCEPT
                     ![new_board.ref] = make_move(new_board.heap[new_board.ref], sq)],
         ref |-> new_board.ref])

\* board.py:324-326: new_board = board.copy(), then new_board.current_player
\* is assigned the opponent of board.current_player
PassTurnObject(h, ref) ==
    Apply(copy(h, ref), LAMBDA new_board :
        [heap |-> [new_board.heap EXCEPT
                     ![new_board.ref].current_player =
                         pass_turn(new_board.heap[ref]).current_player],
         ref |-> new_board.ref])

\* the boards of the first object: with legal moves, and with none
ObjectBoards ==
    { BoardInitial,
      Board({2, 18}, {1, 9}, "black"),              \* test_corner_moves
      Board({}, {27, 28}, "black") }                \* test_no_legal_moves_pass

InitObjects ==
    /\ board \in ObjectBoards
    /\ prev = board
    /\ op = "initial"
    /\ square = None
    /\ flipped = <<>>
    /\ legal_moves = get_legal_moves(board)
    /\ plies = 0
    /\ heap = <<board>>
    /\ call = NoCall
    /\ EngineInit

\* what a step on the heap leaves alone
ObjectsFrame == UNCHANGED <<board, prev, op, square, flipped, legal_moves, plies, engineVars>>

\* a call of copy() on the object at ref
CallCopy(ref) ==
    /\ Len(heap) < MaxObjects
    /\ \E r \in {copy(heap, ref)} :
          /\ heap' = r.heap
          /\ call' = [op |-> "copy", received |-> ref, returned |-> r.ref]
    /\ ObjectsFrame

\* a call of make_move on the object at ref, with one of its legal moves
CallMakeMove(ref, sq) ==
    /\ Len(heap) < MaxObjects
    /\ sq \in ListToSet(get_legal_moves(heap[ref]))
    /\ \E r \in {MakeMoveObject(heap, ref, sq)} :
          /\ heap' = r.heap
          /\ call' = [op |-> "make_move", received |-> ref, returned |-> r.ref]
    /\ ObjectsFrame

\* a call of pass_turn on the object at ref
CallPassTurn(ref) ==
    /\ Len(heap) < MaxObjects
    /\ \E r \in {PassTurnObject(heap, ref)} :
          /\ heap' = r.heap
          /\ call' = [op |-> "pass_turn", received |-> ref, returned |-> r.ref]
    /\ ObjectsFrame

\* tests/test_board.py:164-166: the caller assigns to fields of the object at
\* ref: black_pieces = 0, current_player = 'white'
AssignFields(ref) ==
    /\ heap' = [heap EXCEPT ![ref].black_pieces = {}, ![ref].current_player = "white"]
    /\ call' = [op |-> "assign", received |-> ref, returned |-> ref]
    /\ ObjectsFrame

NextObjects ==
    \/ \E ref \in 1..Len(heap) : CallCopy(ref)
    \/ \E ref \in 1..Len(heap), sq \in Squares : CallMakeMove(ref, sq)
    \/ \E ref \in 1..Len(heap) : CallPassTurn(ref)
    \/ \E ref \in 1..Len(heap) : AssignFields(ref)

SpecObjects == InitObjects /\ [][NextObjects]_vars

(***************************************************************************)
(* The rules of the game, stated on rows and columns: the reference the    *)
(* claims compare the bitboard code with.                                  *)
(***************************************************************************)
Row(sq) == sq \div 8
Col(sq) == sq % 8
Steps == {st \in {-1, 0, 1} \X {-1, 0, 1} : st # <<0, 0>>}

\* the squares met when leaving sq by steps of st = <<rows, columns>>, up to
\* the edge of the board, nearest first
RECURSIVE LineFrom(_, _, _)
LineFrom(r, c, st) ==
    IF r + st[1] \in 0..7 /\ c + st[2] \in 0..7
    THEN <<(r + st[1]) * 8 + c + st[2]>> \o LineFrom(r + st[1], c + st[2], st)
    ELSE <<>>
Line == [sq \in Squares |-> [st \in Steps |-> LineFrom(Row(sq), Col(sq), st)] @@ <<>>] @@ <<>>

\* the first k squares of the line hold opponent disks and the next one an
\* own disk
Brackets(own, opp, line, k) ==
    /\ k + 1 <= Len(line)
    /\ \A i \in 1..k : line[i] \in opp
    /\ line[k + 1] \in own

Bracketed(own, opp, sq) ==
    UNION {{Line[sq][x[1]][i] : i \in 1..x[2]} :
             x \in {y \in Steps \X (1..6) : Brackets(own, opp, Line[sq][y[1]], y[2])}}

\* a run of one to six opponent disks followed by an own disk
BracketsSome(own, opp, line) ==
    /\ Len(line) >= 2
    /\ line[1] \in opp
    /\ \E k \in 1..6 : Brackets(own, opp, line, k)

RulesLegal(b) ==
    {sq \in Squares \ (b.black_pieces \cup b.white_pieces) :
        \E st \in Steps : BracketsSome(OwnBits(b), OppBits(b), Line[sq][st])}

BitsOf(b, player) == IF player = "black" THEN b.black_pieces ELSE b.white_pieces

\* the largest element of a non-empty set of numbers
SetMax(S) == CHOOSE x \in S : \A y \in S : y <= x

\* The value of the game on b for player, the side to move: both sides play
\* any of their legal moves, a side without a legal move passes, and the end
\* of the game is scored by evaluate_terminal.  No window, no table, no order.
RECURSIVE GameValue(_, _)
GameValue(b, player) ==
    IF is_game_over(b) THEN evaluate_terminal(b, player)
    ELSE IF get_legal_moves(b) = <<>>
         THEN 0 - GameValue(pass_turn(b), Opponent(player))
         ELSE SetMax({ 0 - GameValue(make_move(b, m), Opponent(player)) :
                       m \in ListToSet(get_legal_moves(b)) })

\* Negamax to a depth with no window, no table and no move order: evaluate at
\* depth 0, evaluate_terminal when the game is over, a pass taking one ply.
\* Stated for boards with more than 15 empty squares at every node.
RECURSIVE PlainNegamax(_, _, _)
PlainNegamax(b, depth, player) ==
    IF depth = 0 THEN evaluate(b, player)
    ELSE IF is_game_over(b) THEN evaluate_terminal(b, player)
    ELSE IF get_legal_moves(b) = <<>>
         THEN 0 - PlainNegamax(pass_turn(b), depth - 1, Opponent(player))
         ELSE SetMax({ 0 - PlainNegamax(make_move(b, m), depth - 1, Opponent(player)) :
                       m \in ListToSet(get_legal_moves(b)) })

\* the board a key of the transposition table was computed from
BoardOfHash(h) ==
    Board({ i - 65 : i \in { j \in h : j >= 65 } },
          { i - 1 : i \in { j \in h : j >= 1 /\ j <= 64 } },
          IF 0 \in h THEN "black" ELSE "white")

\* the value, for the side to move of b, of playing the legal move m
MoveValue(b, m) == 0 - GameValue(make_move(b, m), Opponent(b.current_player))

(***************************************************************************)
(* Claims                                                                  *)
(***************************************************************************)

\* C1: after make_move(prev, square) on a legal square the mover holds exactly
\* its former disks, the placed square and every opponent disk bracketed on a
\* straight line of the board between the square and a disk of the mover;
\* the opponent holds its former disks without the bracketed ones.
C1_MakeMoveFlipsBracketed ==
    op = "make_move" =>
        LET mover == prev.current_player
            own == OwnBits(prev)
            opp == OppBits(prev)
            fl == Bracketed(own, opp, square)
        IN  /\ BitsOf(board, mover) = own \cup {square} \cup fl
            /\ BitsOf(board, Opponent(mover)) = opp \ fl

\* C2: for every legal square of the board, get_flipped_squares is non-empty
\* and every square it returns holds an opponent disk.
C2_FlippedNonEmptyOpponent ==
    \A sq \in ListToSet(legal_moves) :
        LET fl == get_flipped_squares(board, sq)
        IN  /\ fl # <<>>
            /\ ListToSet(fl) \subseteq OppBits(board)

\* C3: get_legal_moves returns, ascending and without duplicates, exactly the
\* empty squares from which in some direction a run of one to six opponent
\* disks on a straight line of the board is followed by a disk of the mover.
C3_LegalMovesAreBracketingSquares ==
    /\ ListToSet(legal_moves) = RulesLegal(board)
    /\ \A i \in 1..Len(legal_moves), j \in 1..Len(legal_moves) :
          i < j => legal_moves[i] < legal_moves[j]

\* a legal move whose run of six opponent disks lies along a board edge and
\* ends on a corner disk of the mover
C3_Witness ==
    \E sq \in ListToSet(legal_moves), st \in Steps :
        /\ Brackets(OwnBits(board), OppBits(board), Line[sq][st], 6)
        /\ Line[sq][st][7] \in CORNERS
        /\ C3_LegalMovesAreBracketingSquares

\* C4: no square holds both a black and a white disk, after every make_move
\* and pass_turn.
C4_BitboardsDisjoint == board.black_pieces \cap board.white_pieces = {}

\* a board made by a move that flipped disks, two operations after the start
C4_Witness ==
    /\ op = "make_move"
    /\ plies = 2
    /\ Len(flipped) >= 1
    /\ PopCount(BitsOf(board, prev.current_player)) >= 3
    /\ C4_BitboardsDisjoint

\* C5: make_move on a legal square raises the number of disks by exactly one.
C5_MoveAddsOneDisk ==
    op = "make_move" =>
        PopCount(board.black_pieces \cup board.white_pieces)
            = PopCount(prev.black_pieces \cup prev.white_pieces) + 1

\* a move that flipped at least two disks
C5_Witness ==
    /\ op = "make_move"
    /\ PopCount(BitsOf(board, prev.current_player))
          >= PopCount(BitsOf(prev, prev.current_player)) + 3
    /\ C5_MoveAddsOneDisk

\* C6: make_move and pass_turn return a board with the opposite side to move;
\* pass_turn leaves both bitboards unchanged.
C6_SideToMoveSwitches ==
    /\ op = "make_move" => board.current_player = Opponent(prev.current_player)
    /\ op = "pass_turn" =>
          /\ board.current_player = Opponent(prev.current_player)
          /\ board.black_pieces = prev.black_pieces
          /\ board.white_pieces = prev.white_pieces

\* a pass_turn of a board with disks of both colours, white to move
C6_Witness ==
    /\ op = "pass_turn"
    /\ prev.black_pieces # {}
    /\ prev.white_pieces # {}
    /\ prev.current_player = "white"
    /\ C6_SideToMoveSwitches

\* C7: is_game_over is true exactly when neither the side to move nor, after
\* pass_turn, the opponent has a legal move; a full board is game over.
C7_GameOverIffNoMoves ==
    /\ is_game_over(board) <=>
          (legal_moves = <<>> /\ get_legal_moves(pass_turn(board)) = <<>>)
    /\ (legal_moves = <<>> /\ get_legal_moves(pass_turn(board)) # <<>>)
          => ~is_game_over(board)
    /\ board.black_pieces \cup board.white_pieces = Squares => is_game_over(board)

\* the side to move has no legal move, the opponent has one: not game over
C7_Witness ==
    /\ legal_moves = <<>>
    /\ get_legal_moves(pass_turn(board)) # <<>>
    /\ ~is_game_over(board)

\* C8: get_winner is 'black' iff black has more disks, 'white' iff fewer, None
\* iff equal, whatever the side to move, and agrees with the sign of
\* evaluate_terminal(board, 'black').
C8_WinnerIsDiskMajority ==
    LET nb == PopCount(board.black_pieces)
        nw == PopCount(board.white_pieces)
        w == get_winner(board)
        t == evaluate_terminal(board, "black")
    IN  /\ w = "black" <=> nb > nw
        /\ w = "white" <=> nb < nw
        /\ w = "None" <=> nb = nw
        /\ w = "black" <=> t > 0
        /\ w = "white" <=> t < 0
        /\ w = "None" <=> t = 0

\* white to move, white has fewer disks: black wins
C8_Witness ==
    /\ board.current_player = "white"
    /\ PopCount(board.white_pieces) < PopCount(board.black_pieces)
    /\ get_winner(board) = "black"
    /\ evaluate_terminal(board, "black") > 10000

(***************************************************************************)
(* engine.py: get_best_move.  When pc is "idle" and result is not NoResult *)
(* the last call was made on board and has returned result.                *)
(***************************************************************************)
\* C9: on a board with at least two legal moves get_best_move returns, whatever
\* the readings of the clock, a move of get_legal_moves(board) and a
\* depth_reached of at least 1, and the first search it made was the one of
\* depth 1: no time check stops the loop before that iteration is complete.
C9_BestMoveLegalDepthAtLeastOne ==
    (pc = "idle" /\ result # NoResult /\ Len(get_legal_moves(board)) >= 2) =>
        /\ result[1] \in ListToSet(get_legal_moves(board))
        /\ result[3] >= 1
        /\ searches # <<>>
        /\ searches[1].depth = 1

\* a call on a board with two or more legal moves returned after its first
\* iteration because the budget had elapsed
C9_Witness ==
    /\ pc = "idle"
    /\ result # NoResult
    /\ Len(get_legal_moves(board)) >= 2
    /\ expired
    /\ Len(searches) = 1
    /\ result[3] = 1

\* C10: on a board with fewer than two legal moves get_best_move returns without
\* entering the deepening loop and without a call of negamax: (None, 0, 0)
\* when there is no legal move, (the only legal move, 0, 0) when there is one.
C10_FewerThanTwoMovesNoSearch ==
    Len(get_legal_moves(board)) < 2 =>
        /\ pc = "idle"
        /\ result # NoResult =>
              /\ searches = <<>>
              /\ result = IF get_legal_moves(board) = <<>>
                          THEN <<None, 0, 0>>
                          ELSE <<get_legal_moves(board)[1], 0, 0>>

\* a call on a board with exactly one legal move has returned
C10_Witness ==
    /\ pc = "idle"
    /\ Len(get_legal_moves(board)) = 1
    /\ result = <<get_legal_moves(board)[1], 0, 0>>
    /\ self_pv_move = get_legal_moves(board)[1]

\* C11: on a board with at most 15 empty squares and at least two legal moves
\* get_best_move returns a move whose value under best play of both sides,
\* scored by evaluate_terminal for the side to move, is the largest value of
\* a legal move, and the score it returns is that value.
C11_EndgameMoveIsOptimal ==
    (/\ pc = "idle"
     /\ result # NoResult
     /\ EmptyCount(board) <= 15
     /\ Len(get_legal_moves(board)) >= 2) =>
        /\ MoveValue(board, result[1]) = GameValue(board, board.current_player)
        /\ result[2] = GameValue(board, board.current_player)

\* a call of negamax with the board, depth, window and empty transposition
\* table of the call made, and no pv hint, no killer move and no history
UnhintedNegamax ==
    negamax(board, loop_depth, -INF, INF, board.current_player, EmptyTable, EmptyTable,
            EmptyTable, None, 0)

\* C12: a call of negamax from an empty transposition table returns the same
\* best_move and the same score whatever pv hint, killer moves and history
\* order its moves: the ones of the call with none of them.
C12_OrderingDoesNotChangeResult ==
    pc = "returned" =>
        /\ searches[1].score = UnhintedNegamax.score
        /\ searches[1].move = UnhintedNegamax.move

\* C19: from empty tables negamax(board, d, -inf, +inf, side to move) returns
\* the score of the plain negamax of depth d, which prunes nothing, stores
\* nothing and orders nothing: evaluate at depth 0, evaluate_terminal when the
\* game is over, a pass taking one ply.
C19_NegamaxEqualsPlainNegamax ==
    (/\ pc = "returned"
     /\ searches[1].pv_move = None
     /\ searches[1].killer_moves = EmptyTable
     /\ searches[1].history = EmptyTable) =>
        searches[1].score = PlainNegamax(board, loop_depth, board.current_player)

\* C18: every entry negamax or solve_endgame writes to the transposition table
\* holds the value of its position for its depth, whatever the window the
\* position was searched with: the score of the plain negamax of that depth
\* for the side to move.  Then returning a stored entry of a sufficient depth
\* changes the value of no search.
C18_TableEntriesAreExact ==
    pc = "returned" =>
        \A h \in DOMAIN self_tt :
            self_tt[h].score = PlainNegamax(BoardOfHash(h), self_tt[h].depth,
                                            BoardOfHash(h).current_player)

\* the last search of searches, and the last one made to depth d
LastSearch == searches[Len(searches)]
LastSearchOfDepth(d) ==
    searches[CHOOSE i \in 1..Len(searches) :
                /\ searches[i].depth = d
                /\ \A j \in (i + 1)..Len(searches) : searches[j].depth # d]

\* the step of get_best_move in which the clock, read after the search of an
\* iteration of depth 2 or more, shows for the first time that the budget is
\* spent: it was spent while that iteration was being searched
ExpiredWhileSearching == pc = "after" /\ loop_depth >= 2 /\ ~expired /\ expired'

\* C13 (as stated): when the budget expires while iteration d >= 2 is being
\* searched, the result of iteration d is discarded: get_best_move returns the
\* move, the score and the depth_reached of iteration d - 1.
C13_ExpiredIterationDiscarded ==
    [][ExpiredWhileSearching =>
           result' = <<LastSearchOfDepth(loop_depth - 1).move,
                       LastSearchOfDepth(loop_depth - 1).score,
                       loop_depth - 1>>]_vars

\* C13 (amended): when the budget expires while iteration d >= 2 is being
\* searched, the search of iteration d is completed and its result is kept:
\* get_best_move returns the move, the score and the depth_reached of
\* iteration d.
C13_ExpiredIterationKept ==
    [][ExpiredWhileSearching =>
           /\ pc' = "idle"
           /\ result' = <<LastSearch.move, LastSearch.score, loop_depth>>
           /\ LastSearch.depth = loop_depth]_vars

\* a call has returned after the search of its second or a later iteration,
\* on the reading of the clock that follows that search
C13_Witness ==
    /\ pc = "idle"
    /\ result # NoResult
    /\ expired
    /\ loop_depth >= 2
    /\ searches # <<>>
    /\ LastSearch.depth = loop_depth
    /\ result[3] = loop_depth

\* C14 (as stated): every call of get_best_move, whatever the board, empties
\* the transposition table and the killer table at its start, so that no
\* entry written before the call is there when the call searches or returns.
C14_EveryCallClearsTables ==
    [][GetBestMove => (self_tt' = EmptyTable /\ self_killer_moves' = EmptyTable)]_vars

\* C14 (amended): a call of get_best_move on a board with two or more legal
\* moves empties the transposition table and the killer table before its
\* first search; a call on a board with fewer than two legal moves returns
\* with both tables as the calls before left them.
C14_CallClearsTablesIffItSearches ==
    [][GetBestMove =>
           IF Len(get_legal_moves(board)) >= 2
           THEN self_tt' = EmptyTable /\ self_killer_moves' = EmptyTable
           ELSE UNCHANGED <<self_tt, self_killer_moves>>]_vars

\* a call is about to make its first search on empty tables, after an earlier
\* call on this engine has searched and filled them
C14_Witness ==
    /\ pc = "search"
    /\ searches = <<>>
    /\ iterations_started >= 1
    /\ self_history # EmptyTable
    /\ self_tt = EmptyTable
    /\ self_killer_moves = EmptyTable

\* every entry of the history is still there after the step, and not smaller
HistoryNotDecreased ==
    \A m \in DOMAIN self_history :
        m \in DOMAIN self_history' /\ self_history'[m] >= self_history[m]

\* C15 (as stated): the entries of the history that one call accumulated are
\* still there, and not smaller, at the start of the next call unless reset()
\* was called in between; after reset() the history is empty.
C15_HistoryKeptUntilReset ==
    [][IF Reset THEN self_history' = EmptyTable ELSE HistoryNotDecreased]_vars

\* C15 (amended): the entries of the history that one call accumulated are
\* still there, and not smaller, at the start of the next call, also when
\* reset() was called in between: reset() leaves the history as it is.
C15_HistoryKeptAlsoByReset ==
    [][HistoryNotDecreased /\ (Reset => UNCHANGED self_history)]_vars

\* a call made after reset() is about to make its first search with the
\* history of the calls before reset()
C15_Witness ==
    /\ pc = "search"
    /\ searches = <<>>
    /\ iterations_started >= 1
    /\ self_pv_move = None
    /\ self_history # EmptyTable

\* C16: make_move and pass_turn (and with them negamax, solve_endgame and
\* get_best_move, which change boards through these alone) change no field of
\* the Board they receive, nor of any other Board there was: each returns a
\* new Board.  Board.copy() returns an independent object: it is a new
\* object, and assigning to the fields of one object changes no other.
C16_ReceivedBoardUnchanged ==
    [][/\ \A ref \in 1..Len(heap) :
             \/ heap'[ref] = heap[ref]
             \/ call'.op = "assign" /\ call'.received = ref
       /\ call'.op \in {"copy", "make_move", "pass_turn"} =>
             /\ call'.returned = Len(heap) + 1
             /\ Len(heap') = Len(heap) + 1]_vars

\* make_move was called on a copy of the first Board and returned a third
\* object with other fields; the Board it received has its fields still
C16_Witness ==
    /\ Len(heap) = 3
    /\ call = [op |-> "make_move", received |-> 2, returned |-> 3]
    /\ heap[1] = board
    /\ heap[2] = board
    /\ heap[3] # board

\* C17: evaluate(Board.initial(), 'white') is 0, so evaluate_position reports
\* the leader 'even' for the initial position; for every board the leader is
\* 'bot' exactly when evaluate(board, 'white') > 0 and 'human' exactly when
\* evaluate(board, 'white') < 0.
C17_LeaderIsSignOfWhiteScore ==
    /\ board = BoardInitial =>
          /\ evaluate(board, "white") = 0
          /\ evaluate_position(board).leader = "even"
    /\ evaluate_position(board).leader = "bot" <=> evaluate(board, "white") > 0
    /\ evaluate_position(board).leader = "human" <=> evaluate(board, "white") < 0

\* after a move of black, the side to move is white and white is behind
C17_Witness ==
    /\ op = "make_move"
    /\ board.current_player = "white"
    /\ evaluate(board, "white") < 0
    /\ evaluate_position(board).leader = "human"

\* C20: the first search of an iteration has the window (-inf, +inf) when the
\* depth is 1 or 2 and (best_score - 50, best_score + 50) when it is 3 or
\* more, best_score being the score the iteration before kept.  One more
\* search follows exactly when the first score is outside the window: with
\* (-inf, beta) when it is <= alpha, with (alpha, +inf) when it is >= beta.
C20_AspirationWindows ==
    [][pc = "search" =>
          LET n == Len(searches)
              first == searches'[n + 1]
              again == searches'[n + 2]
              alpha == IF loop_depth <= 2 THEN -INF
                       ELSE searches[n].score - ASPIRATION_WINDOW
              beta == IF loop_depth <= 2 THEN INF
                      ELSE searches[n].score + ASPIRATION_WINDOW
          IN  /\ Len(searches') \in {n + 1, n + 2}
              /\ first.depth = loop_depth
              /\ first.alpha = alpha
              /\ first.beta = beta
              /\ Len(searches') = n + 2 <=> (first.score <= alpha \/ first.score >= beta)
              /\ Len(searches') = n + 2 =>
                    /\ again.depth = loop_depth
                    /\ again.alpha = IF first.score <= alpha THEN -INF ELSE alpha
                    /\ again.beta = IF first.score <= alpha THEN beta ELSE INF]_vars

\* an iteration of depth 3 searched with a window of 50 around the score of
\* depth 2, failed high and searched again with (alpha, +inf)
C20_Witness ==
    \E i \in 1..(Len(searches) - 1) :
        /\ i >= 2
        /\ searches[i].depth = 3
        /\ searches[i + 1].depth = 3
        /\ searches[i].alpha = searches[i - 1].score - ASPIRATION_WINDOW
        /\ searches[i].beta = searches[i - 1].score + ASPIRATION_WINDOW
        /\ searches[i].score >= searches[i].beta
        /\ searches[i + 1].alpha = searches[i].alpha
        /\ searches[i + 1].beta = INF

\* ---------------------------------------------------------------------------
\* The re-search of an iteration
\* ---------------------------------------------------------------------------

\* search.py:126-131 and 226-231: the table lookup at a node answers the call
\* when the table holds an entry of the board, in negamax one of at least the
\* depth asked for, in the solver (line 223, at most 15 empties) any entry
TableAnswers(b, depth, tt) ==
    /\ board_hash(b) \in DOMAIN tt
    /\ EmptyCount(b) <= 15 \/ tt[board_hash(b)].depth >= depth

\* C21: when the first search of an iteration fails low or high, the re-search
\* expands the moves of the root again under the widened window: the table the
\* first search leaves behind does not answer the root call of the re-search.
C21_ReSearchExpandsRoot ==
    pc = "search" =>
      Apply(AspirationWindow(loop_depth, loop_best_score), LAMBDA w :
        Apply(RootNegamax(board, loop_depth, w.alpha, w.beta,
                          [tt |-> self_tt, killer_moves |-> self_killer_moves,
                           history |-> self_history], self_pv_move),
              LAMBDA first :
                (first.score <= w.alpha \/ first.score >= w.beta)
                  => ~TableAnswers(board, loop_depth, first.tt)))

(***************************************************************************)
(* The deepening loop with the calls of one search.  SpecDeepening runs    *)
(* one call of get_best_move under every budget, the unlimited one         *)
(* included, on boards whose game tree is small enough to be searched at   *)
(* every depth the loop reaches.  When the search of an iteration has      *)
(* returned, call walks through the calls of negamax and solve_endgame     *)
(* that search can have made: the root call, or a call made from the call  *)
(* before it at one of the call sites of search.py.  Alpha-beta cuts some  *)
(* of these calls; none it makes is missing.                               *)
(***************************************************************************)
\* boards with two or more legal moves: one in the range of the solver, and
\* one outside it whose games are short (a search without cuts makes 26 calls)
DeepeningBoards == { EndgameBoard, Board({0, 18}, {1, 8}, "black") }

InitDeepening ==
    /\ board \in DeepeningBoards
    /\ prev = board
    /\ op = "initial"
    /\ square = None
    /\ flipped = <<>>
    /\ legal_moves = get_legal_moves(board)
    /\ plies = 0
    /\ NoObjects
    /\ EngineInit

\* a call of negamax or of solve_endgame (which has no depth)
SearchCall(routine, b, player, depth) ==
    [op |-> routine, board |-> b, player |-> player, depth |-> depth]

\* engine.py:96-107 (and 112-123, 126-137): the root call of an iteration
RootCall(b, depth) == SearchCall("negamax", b, b.current_player, depth)

\* search.py:218-224: negamax hands the board to the solver
SolverCall(c) == SearchCall("solve_endgame", c.board, c.player, None)

\* the pass is searched for the player who passed
NegamaxPassCall_SamePlayer(c) ==
    SearchCall("negamax", pass_turn(c.board), c.player, c.depth - 1)

\* search.py:246-250
NegamaxPassCall(c) ==
    SearchCall("negamax", pass_turn(c.board), Opponent(c.player), c.depth - 1)

\* search.py:262-268
NegamaxMoveCall(c, move) ==
    SearchCall("negamax", make_move(c.board, move), Opponent(c.player), c.depth - 1)

\* the solver is called again on the board that has no move
SolverPassCall_SameBoard(c) ==
    SearchCall("solve_endgame", c.board, Opponent(c.player), None)

\* search.py:142-145
SolverPassCall(c) ==
    SearchCall("solve_endgame", pass_turn(c.board), Opponent(c.player), None)

\* search.py:154-159
SolverMoveCall(c, move) ==
    SearchCall("solve_endgame", make_move(c.board, move), Opponent(c.player), None)

\* search.py:218-243: negamax goes on to its moves
NegamaxExpands(c) ==
    /\ c.op = "negamax"
    /\ EmptyCount(c.board) > 15
    /\ c.depth # 0
    /\ ~is_game_over(c.board)

\* search.py:133-139: the solver goes on to its moves
SolverExpands(c) ==
    /\ c.op = "solve_endgame"
    /\ ~is_game_over(c.board)

CallFrame ==
    UNCHANGED <<board, prev, op, square, flipped, legal_moves, plies, heap, engineVars>>

EnterSearch ==
    /\ pc = "after"
    /\ call' = RootCall(board, loop_depth)
    /\ CallFrame

EnterSolver ==
    /\ pc = "after"
    /\ call.op = "negamax"
    /\ EmptyCount(call.board) <= 15
    /\ call' = SolverCall(call)
    /\ CallFrame

VisitNegamaxPass ==
    /\ pc = "after"
    /\ NegamaxExpands(call)
    /\ get_legal_moves(call.board) = <<>>
    /\ call' = NegamaxPassCall(call)
    /\ CallFrame

VisitNegamaxMove ==
    /\ pc = "after"
    /\ NegamaxExpands(call)
    /\ \E move \in ListToSet(get_legal_moves(call.board)) :
         call' = NegamaxMoveCall(call, move)
    /\ CallFrame

VisitSolverPass ==
    /\ pc = "after"
    /\ SolverExpands(call)
    /\ get_legal_moves(call.board) = <<>>
    /\ call' = SolverPassCall(call)
    /\ CallFrame

VisitSolverMove ==
    /\ pc = "after"
    /\ SolverExpands(call)
    /\ \E move \in ListToSet(get_legal_moves(call.board)) :
         call' = SolverMoveCall(call, move)
    /\ CallFrame

\* engine.py:149-159, and line 161 after a break, under any budget; the
\* calls of the search have returned
AfterSearchAnyBudget ==
    /\ pc = "after"
    /\ \E elapsed_ge_limit \in ClockReadings :
         /\ expired' = elapsed_ge_limit
         /\ IF elapsed_ge_limit
            THEN result' = Returned /\ pc' = "idle" /\ loop_depth' = loop_depth
            ELSE /\ loop_depth' = loop_depth + 1
                 /\ IF loop_depth + 1 > 50
                    THEN result' = Returned /\ pc' = "idle"
                    ELSE result' = result /\ pc' = "loop"
    /\ call' = NoCall
    /\ UNCHANGED <<board, prev, op, square, flipped, legal_moves, plies, heap, self_tt, self_killer_moves, self_history, self_nodes_searched,
                   self_max_depth_reached, self_pv_move, loop_best_move, loop_best_score,
                   searches, iterations_started>>

\* the steps of get_best_move
DeepeningStep ==
    \/ GetBestMove
    \/ LoopTop
    \/ Search
    \/ AfterSearchAnyBudget

NextDeepening ==
    \/ DeepeningStep
    \/ EnterSearch
    \/ EnterSolver
    \/ VisitNegamaxPass
    \/ VisitNegamaxMove
    \/ VisitSolverPass
    \/ VisitSolverMove

\* the search of an iteration returns to the loop
SearchReturns == pc = "search" /\ pc' = "after"

\* the call runs on: get_best_move is one thread of control, and each step of
\* its loop that can be taken is taken
SpecDeepening ==
    /\ InitDeepening
    /\ [][NextDeepening]_vars
    /\ WF_vars(LoopTop)
    /\ WF_pc(SearchReturns)
    /\ WF_vars(AfterSearchAnyBudget)

\* ---------------------------------------------------------------------------
\* Termination of get_best_move
\* ---------------------------------------------------------------------------

\* one of the recursive calls of negamax and solve_endgame
RecursiveCall ==
    \/ VisitNegamaxPass
    \/ VisitNegamaxMove
    \/ VisitSolverPass
    \/ VisitSolverMove

\* the recursive call has less remaining depth, or a board with more disks
DepthDecreasesOrDisksGrow ==
    \/ call.op = "negamax" /\ call'.op = "negamax" /\ call'.depth < call.depth
    \/ EmptyCount(call'.board) < EmptyCount(call.board)

\* the deepening loop searches the depths 1 to 50 in order, at most 50
\* iterations, and the depth_reached of a searched call is the depth of the
\* last iteration that returned a move
DeepeningLoopBounded ==
    /\ pc \in {"loop", "search", "after"} =>
         /\ loop_depth \in 1..50
         /\ {searches[i].depth : i \in 1..Len(searches)}
              = 1..(IF pc = "after" THEN loop_depth ELSE loop_depth - 1)
    /\ pc = "idle" /\ result # NoResult /\ searches # <<>> =>
         /\ result[3] <= 50
         /\ \E i \in 1..Len(searches) :
              /\ searches[i].move # None
              /\ searches[i].depth = result[3]
              /\ \A j \in (i + 1)..Len(searches) :
                   searches[j].move = None \/ searches[j].depth = result[3]

\* C22 (as stated): each recursive search of a call of get_best_move
\* terminates because, from a call of negamax or solve_endgame to every
\* recursive call it makes, the remaining depth decreases or the disk count
\* grows.
C22_EveryCallDecreasesDepthOrAddsDisk ==
    [][RecursiveCall => DepthDecreasesOrDisksGrow]_vars

\* C22 (amended): get_best_move terminates for every board and every budget,
\* the unlimited one included: the loop runs at most 50 iterations, of the
\* depths 1 to 50; each recursive search terminates because, from a call to
\* every recursive call it makes, the remaining depth decreases or the disk
\* count grows, or the call is the pass of the endgame solver, which is made
\* on a board whose side to move has a move and so is followed by no second
\* pass; and depth_reached is the depth of the last iteration that returned
\* a move, at most 50.
C22_GetBestMoveTerminates ==
    /\ []DeepeningLoopBounded
    /\ [][RecursiveCall =>
            \/ DepthDecreasesOrDisksGrow
            \/ /\ call.op = "solve_endgame"
               /\ get_legal_moves(call.board) = <<>>
               /\ EmptyCount(call'.board) = EmptyCount(call.board)
               /\ get_legal_moves(call'.board) # <<>>]_vars
    /\ (pc # "idle") ~> (pc = "idle")

\* the search of the 50th iteration has returned, and one of its calls is a
\* call of the solver on a board whose side to move must pass
C22_Witness ==
    /\ pc = "after"
    /\ loop_depth = 50
    /\ iterations_started = 50
    /\ call.op = "solve_endgame"
    /\ ~is_game_over(call.board)
    /\ get_legal_moves(call.board) = <<>>

\* ---------------------------------------------------------------------------
\* The player of a call is the side to move
\* ---------------------------------------------------------------------------

\* C27: at every call of negamax or solve_endgame made during a call of
\* get_best_move, the player argument is the side to move of the board
\* argument: it is at the root call, and the calls after a move and after a
\* pass keep it so.
C27_PlayerIsSideToMove ==
    call.op \in {"negamax", "solve_endgame"} => call.player = call.board.current_player

\* a call made after a pass: its board is the board of the search's root call
\* or a later one with the side to move switched to a side that has a move,
\* and the side before it had none
C27_Witness ==
    /\ call.op \in {"negamax", "solve_endgame"}
    /\ call.board # board
    /\ get_legal_moves(call.board) # <<>>
    /\ get_legal_moves(pass_turn(call.board)) = <<>>
    /\ call.player = call.board.current_player

(***************************************************************************)
(* The killer table under cutoffs.  SpecKillers runs the branch negamax    *)
(* takes at a beta cutoff (search.py:277-290) on the tables of one engine, *)
(* for every sequence of cutoffs: a cutoff is caused by some move at some  *)
(* ply of a node searched to some remaining depth.  call is the latest     *)
(* cutoff.                                                                 *)
(***************************************************************************)
\* the plies 0..MaxCutoffPly, the remaining depths 1..MaxCutoffDepth, and the
\* history weight up to which cutoffs are followed
MaxCutoffPly == 1
MaxCutoffDepth == 1
MaxHistoryWeight == 2

\* moves that cause cutoffs: three of the legal moves of SixPlyBoard
CutoffMoves == {10, 21, 29}

InitKillers ==
    /\ board = SixPlyBoard
    /\ prev = board
    /\ op = "initial"
    /\ square = None
    /\ flipped = <<>>
    /\ legal_moves = get_legal_moves(board)
    /\ plies = 0
    /\ NoObjects
    /\ EngineInit

\* search.py:278-290: alpha >= beta after move was searched at a node of ply
\* current_depth with remaining depth depth
BetaCutoff(current_depth, move, depth) ==
    /\ HistoryGet(self_history, move) + depth * depth <= MaxHistoryWeight
    /\ self_killer_moves' = KillersAfterCutoff(self_killer_moves, current_depth, move)
    /\ self_history' = HistoryAfterCutoff(self_history, move, depth)
    /\ call' = [op |-> "cutoff", current_depth |-> current_depth, move |-> move,
                depth |-> depth]
    /\ UNCHANGED <<board, prev, op, square, flipped, legal_moves, plies, heap, self_tt,
                   self_nodes_searched, self_max_depth_reached, self_pv_move, pc,
                   loop_depth, loop_best_move, loop_best_score, expired, result, searches,
                   iterations_started>>

NextKillers ==
    \E current_depth \in 0..MaxCutoffPly, move \in CutoffMoves, depth \in 1..MaxCutoffDepth :
       BetaCutoff(current_depth, move, depth)

SpecKillers == InitKillers /\ [][NextKillers]_vars

\* C23: after a beta cutoff caused by move m at ply p in negamax, m is the
\* first element of killers[p]; and at all times every killers[p] holds at
\* most 2 moves and no move twice.
C23_CutoffMoveIsFirstKiller ==
    /\ call.op = "cutoff" =>
         /\ call.current_depth \in DOMAIN self_killer_moves
         /\ self_killer_moves[call.current_depth] # <<>>
         /\ self_killer_moves[call.current_depth][1] = call.move
    /\ \A p \in DOMAIN self_killer_moves :
         /\ Len(self_killer_moves[p]) <= 2
         /\ Cardinality(ListToSet(self_killer_moves[p])) = Len(self_killer_moves[p])

(***************************************************************************)
(* The ordering of moves.  SpecOrdering calls order_moves on lists of      *)
(* moves as get_legal_moves returns them (ascending, no square twice),     *)
(* with and without a pv move, killer moves and a history table.           *)
(***************************************************************************)
\* the longest list of moves ordered
MaxOrderedMoves == 3

\* a corner, the four X-squares, and squares that are neither, among them
\* B6 (41) and G6 (46)
OrderingSquares == {A1, B2, 18, 19, 41, 46, B7, 50, G7}

OrderingHints == {None, A1, 18, B7}
OrderingKillers == {<<>>, <<50>>, <<B2, 18>>}
OrderingHistories ==
    {EmptyTable, (19 :> 5), (18 :> 4) @@ (50 :> 4) @@ (B7 :> 9) @@ (41 :> 9) @@ (46 :> 1)}

InitOrdering ==
    /\ board = BoardInitial
    /\ prev = board
    /\ op = "initial"
    /\ square = None
    /\ flipped = <<>>
    /\ \E moves \in SUBSET OrderingSquares :
          /\ Cardinality(moves) <= MaxOrderedMoves
          /\ legal_moves = BitsToList(moves, 0, 63)
    /\ plies = 0
    /\ NoObjects
    /\ self_tt = EmptyTable
    /\ self_pv_move \in OrderingHints
    /\ \E depth_killers \in OrderingKillers :
          self_killer_moves = (IF depth_killers = <<>> THEN EmptyTable
                               ELSE (0 :> depth_killers))
    /\ self_history \in OrderingHistories
    /\ self_nodes_searched = 0
    /\ self_max_depth_reached = 0
    /\ pc = "order_moves"
    /\ loop_depth = 0
    /\ loop_best_move = None
    /\ loop_best_score = 0
    /\ expired = FALSE
    /\ result = NoResult
    /\ searches = <<>>
    /\ iterations_started = 0

\* search.py:254-257: the call of order_moves at a node of ply 0; result is
\* the list returned
CallOrderMoves ==
    /\ pc = "order_moves"
    /\ result' = order_moves(board, legal_moves, self_pv_move,
                             KillersGet(self_killer_moves, 0), self_history)
    /\ pc' = "returned"
    /\ UNCHANGED <<gameVars, self_tt, self_killer_moves, self_history, self_nodes_searched,
                   self_max_depth_reached, self_pv_move, loop_depth, loop_best_move,
                   loop_best_score, expired, searches, iterations_started>>

NextOrdering == CallOrderMoves

SpecOrdering == InitOrdering /\ [][NextOrdering]_vars

\* the place of a move in the order of priority: the earliest category the
\* move fits, the X-squares being B2, G2, B7 and G7
OrderingRank(move) ==
    IF self_pv_move # None /\ move = self_pv_move THEN 1
    ELSE IF move \in CORNERS THEN 2
    ELSE IF move \in ListToSet(KillersGet(self_killer_moves, 0)) THEN 3
    ELSE IF move \in X_SQUARES THEN 5
    ELSE 4

\* the index of a move in a list without repetitions
IndexIn(list, move) == CHOOSE i \in 1..Len(list) : list[i] = move

\* C24: order_moves returns a permutation of its input in the order: the pv
\* move if it is in the list, corners, moves of the killer list, the remaining
\* non-X-square moves by history weight descending with ties kept in input
\* order, X-square moves (B2, G2, B7, G7) last, a move that fits several
\* categories being placed in the earliest; and the hard-coded X-square mask
\* equals X_SQUARES.
C24_OrderMovesOrder ==
    pc = "returned" =>
         /\ X_SQUARE_MASK = X_SQUARES
         /\ Len(result) = Len(legal_moves)
         /\ ListToSet(result) = ListToSet(legal_moves)
         /\ \A i, j \in 1..Len(result) :
              i < j =>
                /\ OrderingRank(result[i]) <= OrderingRank(result[j])
                /\ OrderingRank(result[i]) = 4 /\ OrderingRank(result[j]) = 4 =>
                     /\ HistoryGet(self_history, result[i])
                          >= HistoryGet(self_history, result[j])
                     /\ HistoryGet(self_history, result[i])
                          = HistoryGet(self_history, result[j])
                        => IndexIn(legal_moves, result[i]) < IndexIn(legal_moves, result[j])

\* ---------------------------------------------------------------------------
\* Frontier disks
\* ---------------------------------------------------------------------------

\* the up to 8 squares next to a square: one row and one column away at most
Neighbours(sq) ==
    {n \in Squares : n # sq /\ Abs(Row(n) - Row(sq)) <= 1 /\ Abs(Col(n) - Col(sq)) <= 1}

\* the disks of the player with an empty square among their neighbours
FrontierDisks(player_pieces, opponent_pieces) ==
    {sq \in player_pieces :
        \E n \in Neighbours(sq) : n \notin (player_pieces \cup opponent_pieces)}

\* C25: count_frontier_pieces(player, opponent) is the number of disks of the
\* player with at least one empty square among their up to 8 neighbours, with
\* no wrap-around between the H and the A file, an empty neighbour on the A
\* or the H file counting like any other.
C25_FrontierCountsEmptyNeighbours ==
    /\ count_frontier_pieces(board.black_pieces, board.white_pieces)
         = Cardinality(FrontierDisks(board.black_pieces, board.white_pieces))
    /\ count_frontier_pieces(board.white_pieces, board.black_pieces)
         = Cardinality(FrontierDisks(board.white_pieces, board.black_pieces))

\* ---------------------------------------------------------------------------
\* The pv hint of an iteration
\* ---------------------------------------------------------------------------

\* the searches of the call, logged before search i, that ended an iteration
\* of a lower depth and returned a move
HintSources(i) ==
    {j \in 1..(i - 1) :
        /\ searches[j].depth < searches[i].depth
        /\ searches[j].move # None
        /\ \A k \in (j + 1)..(i - 1) : searches[k].depth # searches[j].depth}

\* C26: in the first iteration of every call of get_best_move the pv hint
\* passed to negamax is None, whatever calls the engine has answered before;
\* in a later iteration it is the move returned by the latest iteration that
\* returned one.
C26_HintIsNoneThenLatestMove ==
    \A i \in 1..Len(searches) :
       searches[i].pv_move =
          (IF HintSources(i) = {} THEN None ELSE searches[SetMax(HintSources(i))].move)

(***************************************************************************)
(* The game loop of play.py.  SpecGame runs the loop of play.py:122-173    *)
(* from Board.initial() and from two endgames reached from it: while the   *)
(* game is not over, the side to move passes if it has no legal move and   *)
(* places a disk otherwise.  Black's square is the human's choice, which   *)
(* get_human_move takes from the legal moves, white's the move returned by *)
(* get_best_move, a legal move as well; the loop is followed for every     *)
(* choice of a legal move.  heap[1] is the board the game started with.    *)
(***************************************************************************)
\* the placements after which a game is followed no further
MaxPlacements == 4

GameStartBoards == { BoardInitial, EndgameBoard, EndgameBoardFive }

InitGame ==
    /\ board \in GameStartBoards
    /\ prev = board
    /\ op = "initial"
    /\ square = None
    /\ flipped = <<>>
    /\ legal_moves = get_legal_moves(board)
    /\ plies = 0
    /\ heap = <<board>>
    /\ call = NoCall
    /\ EngineInit

\* the disks placed since the start of the game
Placed == EmptyCount(heap[1]) - EmptyCount(board)

\* the board stays as it is
PlayPass_KeepsSideToMove ==
    /\ UNCHANGED <<board, legal_moves>>
    /\ prev' = board
    /\ op' = "pass_turn"
    /\ square' = None
    /\ flipped' = <<>>
    /\ plies' = plies + 1
    /\ UNCHANGED <<heap, call>>

\* play.py:143-148 (and 166-168): the pass
PlayPass ==
    DoPassTurn

\* play.py:122-148: an iteration of the loop in which the side to move passes
GamePass ==
    /\ ~is_game_over(board)
    /\ legal_moves = <<>>
    /\ PlayPass
    /\ UNCHANGED engineVars

\* play.py:122-141 and 150-173: an iteration of the loop in which the side to
\* move places a disk
GamePlace(sq) ==
    /\ ~is_game_over(board)
    /\ legal_moves # <<>>
    /\ Placed < MaxPlacements
    /\ DoMakeMove(sq)
    /\ UNCHANGED engineVars

\* play.py:122 and 175-177: the loop is left, the game is over
GameEnds ==
    /\ is_game_over(board)
    /\ op # "game_over"
    /\ op' = "game_over"
    /\ UNCHANGED <<board, prev, square, flipped, legal_moves, plies, heap, call, engineVars>>

NextGame ==
    \/ GamePass
    \/ \E sq \in Squares : GamePlace(sq)
    \/ GameEnds

\* play.py goes on: a step of NextGame is taken when there is one (the side to
\* move has no move, and passes or the game ends; or it has one, and places a
\* disk)
PlayGoesOn ==
    /\ op # "game_over"
    /\ legal_moves = <<>> \/ Placed < MaxPlacements
    /\ \/ plies' = plies + 1 /\ op' \in {"make_move", "pass_turn"}
       \/ plies' = plies /\ op' = "game_over"

SpecGame == InitGame /\ [][NextGame]_vars /\ WF_<<op, plies>>(PlayGoesOn)

\* C28: in the game loop a pass is never followed directly by another pass,
\* the disk count grows by one with every placement and stays with a pass, so
\* that a game from Board.initial() has placed at most 60 disks and made at
\* most one pass more than that; and the loop ends in a board on which the
\* game is over (followed to the end for the games that start with at most
\* MaxPlacements empty squares).
C28_GameLoopTerminates ==
    /\ [][op' = "pass_turn" => op # "pass_turn"]_vars
    /\ [](/\ op = "make_move" => EmptyCount(board) = EmptyCount(prev) - 1
          /\ op = "pass_turn" => EmptyCount(board) = EmptyCount(prev)
          /\ Placed <= EmptyCount(heap[1])
          /\ heap[1] = BoardInitial => Placed <= 60
          /\ plies <= 2 * Placed + 1)
    /\ (EmptyCount(heap[1]) <= MaxPlacements) ~> (op = "game_over")

\* a game is over after all its squares were filled, a pass among the steps
C28_Witness ==
    /\ is_game_over(board)
    /\ op = "game_over"
    /\ plies > Placed
    /\ Placed = EmptyCount(heap[1])

\* ---------------------------------------------------------------------------
\* What make_move leaves alone
\* ---------------------------------------------------------------------------

\* C29: for a board with disjoint bitboards and a legal square, make_move
\* never changes the colour of a disk on a corner square, never empties an
\* occupied square, and never changes a disk of the mover into a disk of the
\* opponent.
C29_MakeMoveKeepsCornersAndOwnDisks ==
    op = "make_move" /\ prev.black_pieces \cap prev.white_pieces = {}
                     /\ square \in ListToSet(get_legal_moves(prev)) =>
        /\ \A c \in CORNERS :
              /\ c \in prev.black_pieces => c \in board.black_pieces
              /\ c \in prev.white_pieces => c \in board.white_pieces
        /\ (prev.black_pieces \cup prev.white_pieces)
              \subseteq (board.black_pieces \cup board.white_pieces)
        /\ BitsOf(prev, prev.current_player) \subseteq BitsOf(board, prev.current_player)

(***************************************************************************)
(* C30: both evaluators are zero-sum.  On every board of a game, with      *)
(* either side to move, evaluate(board, 'black') is the negation of        *)
(* evaluate(board, 'white'), the parity term included (it is credited to   *)
(* the side to move and debited from the other), and evaluate_terminal     *)
(* (board, 'black') is the negation of evaluate_terminal(board, 'white').  *)
(***************************************************************************)
C30_EvaluatorsAreZeroSum ==
    /\ evaluate(board, "black") = -evaluate(board, "white")
    /\ get_parity_bonus(board, "black") = -get_parity_bonus(board, "white")
    /\ evaluate_terminal(board, "black") = -evaluate_terminal(board, "white")

\* a board reached by a pass, so that the side to move is the side that
\* placed the last disk, with an odd number of empty squares under 20 (the
\* parity term is not zero), the two players' scores from either evaluator
\* being opposite and not zero
C30_Witness ==
    /\ op = "pass_turn"
    /\ EmptyCount(board) < 20
    /\ EmptyCount(board) % 2 = 1
    /\ get_parity_bonus(board, board.current_player) = PARITY_WEIGHT
    /\ get_parity_bonus(board, prev.current_player) = -PARITY_WEIGHT
    /\ evaluate(board, "black") # 0
    /\ evaluate(board, "black") = -evaluate(board, "white")
    /\ evaluate_terminal(board, "black") # 0
    /\ evaluate_terminal(board, "black") = -evaluate_terminal(board, "white")

====
